---------------------------- MODULE Spec2Model ----------------------------
(***************************************************************************)
(* A model of soundyrust: the MIDI compiler (src/src/midi.rs) and the      *)
(* SoundFont sequencer, mixer and buffering bridge (src/src/source.rs).    *)
(*                                                                         *)
(* Numbers.  The code keeps tick, beat and the voice positions in f64/f32. *)
(* The model keeps them as exact fixed-point integers:                     *)
(*   tick, beat, ticks_per_sample  in units of 1/SamplesPerSecond,         *)
(*   current_sample, end_sample, speed  in half samples.                   *)
(* Rounding error of the floating-point accumulation is not modelled.      *)
(***************************************************************************)
EXTENDS Integers, Sequences, FiniteSets, TLC

VARIABLES
    file,       \* midi.rs: the MIDIFile handed to MidiTrack::from_midi_file
    compiled,   \* midi.rs: the MidiTrack.events it returned
    mpc,        \* "start" before from_midi_file has run, "done" after
    tracks,                 \* source.rs: MidiAudio.tracks, handle |-> MidiAudioTrack
    current_audio_channel,  \* source.rs: MidiRenderer.current_audio_channel
    hung,                   \* the renderer is inside a tick_midi call that never returns
    obs,                    \* per track, what the last frame did to it (history)
    rendered,               \* what the last call of MidiRenderer::tick mixed (history)
    control_ops,            \* calls the control side has made so far (history)
    requested_samples,      \* source.rs: the shared count of samples asked for
    buffer,                 \* source.rs: the shared VecDeque of rendered samples
    locks,                  \* who holds each of the four mutexes
    rpc,                    \* where MidiRenderer::loop is: "top", "lock" or "batch"
    samples,                \* MidiRenderer::loop: the local `samples`
    left,                   \* iterations of `for _ in 0..samples` still to run
    cpc,                    \* where MidiDecoder::next is: "idle" or "requested"
    pulls,                  \* calls of MidiDecoder::next so far (history)
    pulled,                 \* what the last call of next saw and returned (history)
    pushed,                 \* samples the renderer has pushed to the buffer so far (history)
    call,                   \* a single call of a function: its name and arguments
    ret                     \* that call's outcome: pending, returned (a value) or panicked

mergeVars == <<file, compiled, mpc>>
mixerVars == <<tracks, current_audio_channel, hung, obs, rendered, control_ops>>
threadVars == <<requested_samples, buffer, locks, rpc, samples, left, cpc, pulls, pulled, pushed>>
callVars == <<call, ret>>
vars == <<file, compiled, mpc,
          tracks, current_audio_channel, hung, obs, rendered, control_ops,
          requested_samples, buffer, locks, rpc, samples, left, cpc, pulls, pulled, pushed,
          call, ret>>

----------------------------------------------------------------------------
(* Bounds of the MIDI compiler's inputs *)

\* largest delta-time of an input event
MaxDelta == 2
\* largest number of events of an input file, all tracks together
MaxFileEvents == 3

Min(a, b) == IF a <= b THEN a ELSE b
Max(a, b) == IF a >= b THEN a ELSE b

RECURSIVE SeqSum(_)
SeqSum(s) == IF s = <<>> THEN 0 ELSE Head(s) + SeqSum(Tail(s))

----------------------------------------------------------------------------
(* MIDI compiler: MidiTrack::from_midi_file, src/src/midi.rs               *)

\* meta type of Set-Tempo
SetTempoMetaType == 81

\* faulty variant: the three bytes read with the low byte first
FromBeBytes_LowFirst(bytes) == (bytes[3] * 256 + bytes[2]) * 256 + bytes[1]

\* u32::from_be_bytes([0, b0, b1, b2])
FromBeBytes(bytes) == (bytes[1] * 256 + bytes[2]) * 256 + bytes[3]

\* 60_000_000.0 / microseconds_per_beat: the f64 quotient is the whole number
\* computed here for every byte triple the model uses, all of which encode a
\* divisor of 60,000,000
TempoOfBytes(bytes) == 60000000 \div FromBeBytes(bytes)

\* the `match next_event.inner`: a channel message is kept, Set-Tempo becomes
\* a tempo in beats per minute; every other meta event takes `_ => continue`
IsRecognized(inner) ==
    \/ inner.kind = "Message"
    \/ inner.kind = "Meta" /\ inner.meta_type = SetTempoMetaType

ConvertInner(inner) ==
    IF inner.kind = "Message"
    THEN [kind |-> "Message", tag |-> inner.tag, msg |-> inner.msg]
    ELSE [kind |-> "Tempo", tag |-> inner.tag, tempo |-> TempoOfBytes(inner.bytes)]

\* (pending is the local `tracks`: one deque of events per track chunk)
\* the indices of the tracks that still have a front event
NonEmptyTracks(pending) == {i \in DOMAIN pending : pending[i] # <<>>}

\* min_by_key(delta_time) over the fronts: the first track with the least delta
NextEventTrackIndex(pending) ==
    CHOOSE i \in NonEmptyTracks(pending) :
        /\ \A j \in NonEmptyTracks(pending) :
              pending[i][1].delta_time <= pending[j][1].delta_time
        /\ \A j \in NonEmptyTracks(pending) :
              j < i => pending[j][1].delta_time > pending[i][1].delta_time

\* faulty variant: the other tracks' deltas are left as they were
SubtractDelta_Skip(track, remaining_time) == track

\* lines 139-148: take `remaining_time` off the deltas of one other track,
\* front first, each clamped at zero
RECURSIVE SubtractDelta(_, _)
SubtractDelta(track, remaining_time) ==
    IF track = <<>> \/ remaining_time = 0 THEN track
    ELSE LET sub == Min(track[1].delta_time, remaining_time)
         IN  <<[track[1] EXCEPT !.delta_time = @ - sub]>>
                 \o SubtractDelta(Tail(track), remaining_time - sub)

\* faulty variant: the event's own delta is taken for its absolute time
AdvanceTime_Reset(time, delta_time) == delta_time

\* line 130: the running absolute time after an emitted event
AdvanceTime(time, delta_time) == time + delta_time

\* lines 89-150: the while loop
RECURSIVE MergeLoop(_, _, _)
MergeLoop(pending, time, events) ==
    IF NonEmptyTracks(pending) = {} THEN events
    ELSE LET idx == NextEventTrackIndex(pending)
             next_event == Head(pending[idx])
             popped == [pending EXCEPT ![idx] = Tail(@)]
         IN  IF ~IsRecognized(next_event.inner)
             THEN MergeLoop(popped, time, events)
             ELSE LET t == AdvanceTime(time, next_event.delta_time)
                      others == [i \in DOMAIN popped |->
                                    IF i = idx THEN popped[i]
                                    ELSE SubtractDelta(popped[i], next_event.delta_time)]
                  IN  MergeLoop(others, t,
                          Append(events, [time |-> t, inner |-> ConvertInner(next_event.inner)]))

\* MidiTrack::from_midi_file: the events of the returned MidiTrack
FromMidiFile(f) == MergeLoop(f.tracks, 0, <<>>)


----------------------------------------------------------------------------
(* Inputs of the MIDI compiler *)

\* 500,000 microseconds per beat as the three big-endian bytes of Set-Tempo
TempoBytes == <<7, 161, 32>>

\* an input event of track i at position k; the tag stands for its content
MkInner(kind, tag) ==
    CASE kind = "msg"   -> [kind |-> "Message", tag |-> tag,
                            msg |-> [type |-> "NoteOn", channel |-> 0, note |-> 60, velocity |-> 127]]
      [] kind = "tempo" -> [kind |-> "Meta", tag |-> tag,
                            meta_type |-> SetTempoMetaType, bytes |-> TempoBytes]
      [] OTHER          -> [kind |-> "Meta", tag |-> tag,
                            meta_type |-> 47, bytes |-> <<>>]

EventChoices == (0 .. MaxDelta) \X {"msg", "tempo", "other"}

MkTrack(i, choices) ==
    [k \in 1 .. Len(choices) |->
        [delta_time |-> choices[k][1], inner |-> MkInner(choices[k][2], <<i, k>>)]]

\* the lengths of the two tracks of a file with at most MaxFileEvents events
FileShapes == {p \in (0 .. MaxFileEvents) \X (0 .. MaxFileEvents) : p[1] + p[2] <= MaxFileEvents}

\* a two-track file
MkFile(a, b) == [tracks |-> <<MkTrack(1, a), MkTrack(2, b)>>]

\* track A at ticks {0, 10, 20} and track B at ticks {5, 15}
ExampleFile ==
    MkFile(<<<<0, "msg">>, <<10, "msg">>, <<10, "msg">>>>, <<<<5, "msg">>, <<10, "msg">>>>)

\* MidiAudio::decoder, lines 428-431 and 435-442: an empty buffer, nothing
\* requested, no mutex held, the renderer at the top of its loop
NoThreads ==
    /\ requested_samples = 0
    /\ buffer = <<>>
    /\ locks = [tracks |-> "free", soundfont |-> "free",
                requested_samples |-> "free", buffer |-> "free"]
    /\ rpc = "top"
    /\ samples = 0
    /\ left = 0
    /\ cpc = "idle"
    /\ pulls = 0
    /\ pulled = [began |-> "none", ended |-> "none", empty |-> FALSE, value |-> 0]
    /\ pushed = 0

\* no single call is followed
NoCalls ==
    /\ call = [fn |-> "none"]
    /\ ret = [state |-> "none"]

\* the compiler runs before any mixer exists
NoMixer ==
    /\ tracks = <<>>
    /\ current_audio_channel = 0
    /\ hung = FALSE
    /\ obs = <<>>
    /\ rendered = <<>>
    /\ control_ops = 0

MergeInit ==
    /\ \/ \E p \in FileShapes :
             \E a \in [1 .. p[1] -> EventChoices], b \in [1 .. p[2] -> EventChoices] :
                file = MkFile(a, b)
       \/ file = ExampleFile
    /\ compiled = <<>>
    /\ mpc = "start"
    /\ NoMixer
    /\ NoThreads
    /\ NoCalls

\* one call of MidiTrack::from_midi_file
Compile ==
    /\ mpc = "start"
    /\ compiled' = FromMidiFile(file)
    /\ mpc' = "done"
    /\ UNCHANGED file
    /\ UNCHANGED mixerVars
    /\ UNCHANGED threadVars
    /\ UNCHANGED callVars

MergeNext == Compile

SpecMerge == MergeInit /\ [][MergeNext]_vars

----------------------------------------------------------------------------
(* Properties of the MIDI compiler *)

\* absolute time of source event k of track i: the sum of its track's deltas up to it
SourceTime(i, k) == SeqSum([n \in 1 .. k |-> file.tracks[i][n].delta_time])

\* the source events, each named by its track and its position in it
SourceTags == UNION {{<<i, k>> : k \in DOMAIN file.tracks[i]} : i \in DOMAIN file.tracks}

OnlyRecognized ==
    \A t \in SourceTags : IsRecognized(file.tracks[t[1]][t[2]].inner)

PositionsOf(tag) == {n \in DOMAIN compiled : compiled[n].inner.tag = tag}

\* C5: the event list from_midi_file returns has non-decreasing absolute
\* times, for every multi-track input (dropped meta events included)
C5_MergedTimesNonDecreasing ==
    mpc = "done" =>
        \A i, j \in DOMAIN compiled : i < j => compiled[i].time <= compiled[j].time

\* C5 witness: a compiled list of two tracks' events with a dropped meta
\* event and strictly growing times
C5_Witness ==
    /\ mpc = "done"
    /\ ~OnlyRecognized
    /\ Len(compiled) >= 2
    /\ compiled[1].inner.tag[1] # compiled[2].inner.tag[1]
    /\ compiled[1].time < compiled[2].time

\* C6: for inputs of recognized events only, the merged list holds every
\* source event exactly once, keeps each track's order, and gives each event
\* the sum of its own track's delta-times up to and including it
C6_MergeKeepsEventsAndTimes ==
    (mpc = "done" /\ OnlyRecognized) =>
        /\ Len(compiled) = Cardinality(SourceTags)
        /\ \A t \in SourceTags :
              /\ Cardinality(PositionsOf(t)) = 1
              /\ \A n \in PositionsOf(t) : compiled[n].time = SourceTime(t[1], t[2])
        /\ \A m, n \in DOMAIN compiled :
              (m < n /\ compiled[m].inner.tag[1] = compiled[n].inner.tag[1])
                  => compiled[m].inner.tag[2] < compiled[n].inner.tag[2]

\* C6 witness: the example of the specification, A at {0,10,20} and B at
\* {5,15}, merged to {0,5,10,15,20}
C6_Witness ==
    /\ mpc = "done"
    /\ file = ExampleFile
    /\ [n \in 1 .. Len(compiled) |-> compiled[n].time] = <<0, 5, 10, 15, 20>>
    /\ [n \in 1 .. Len(compiled) |-> compiled[n].inner.tag[1]] = <<1, 2, 1, 2, 1>>

\* C21: dropped meta events shift nothing: every emitted event has the sum
\* of the delta times of its source track up to and including it, those of
\* dropped events before it among them
C21_DroppedEventsKeepTime ==
    mpc = "done" =>
        \A n \in DOMAIN compiled :
            compiled[n].time = SourceTime(compiled[n].inner.tag[1], compiled[n].inner.tag[2])


----------------------------------------------------------------------------
(* Program constants of src/src/source.rs *)

\* MidiRenderer.num_audio_channels
NumAudioChannels == 2
\* MidiAudioTrack::new: the 16 MIDI channels of a track
NumChannels == 16
\* MidiAudioTrack::new: channel 9 takes bank 128
PercussionChannel == 9
PercussionBank == 128
\* MidiAudioTrack::new: beats_per_second = 120.0 / 60.0
DefaultBeatsPerMinute == 120
\* start_playing_note: velocity 127; create_voice: volume = velocity / 127.0
FullVelocity == 127
\* i16::MIN and i16::MAX
I16Min == -32768
I16Max == 32767
\* SampleType
Mono == 1
Right == 2
Left == 4

(* Bounds of the mixer *)

\* stands for samples_per_second (44100.0 in MidiAudioTrack::new): the number
\* of frames of one second, scaled down so that beats and bars are reached
SamplesPerSecond == 4
\* longest queue of a track
MaxQueueLen == 2
\* voice positions are followed up to this many samples
MaxPosition == 8
\* a track's beat is followed up to this many beats
MaxBeats == 4
\* calls of the control side (queue, start_playing_note, stop_playing_note)
MaxControlOps == 2

\* positions are counted in half samples
ToPos(n) == 2 * n
PosFloor(pos) == pos \div 2
PosCeil(pos) == (pos + 1) \div 2
\* numerator of the fractional part, over 2
PosFract(pos) == pos % 2

\* `as i32` of a quotient: rounds toward zero
TruncDiv(n, d) == IF n >= 0 THEN n \div d ELSE -((-n) \div d)

\* the sum of f over the set S, and over its whole domain
RECURSIVE SumOn(_, _)
SumOn(f, S) ==
    IF S = {} THEN 0
    ELSE LET x == CHOOSE y \in S : TRUE
         IN  f[x] + SumOn(f, S \ {x})

SumFun(f) == SumOn(f, DOMAIN f)

----------------------------------------------------------------------------
(* The SoundFont: immutable once loaded.  Ids are 0-based as in the file.  *)

\* waveform, index 0 first; every sample is followed by a zero of padding
WaveData ==
    <<32767, 32767, 32767, 0,     \* 0..2  loud, positive
      -32768, -32768, 0,          \* 4..5  loud, negative
      1000, 2000, 0,              \* 7..8  left
      -500, -700, 0>>             \* 10..11 right

WaveAt(i) == WaveData[i + 1]

SampleHeaders ==
    <<[start |-> 0,  end |-> 3,  original_pitch |-> 60, pitch_correction |-> 0, sample_type |-> Mono],
      [start |-> 4,  end |-> 6,  original_pitch |-> 60, pitch_correction |-> 0, sample_type |-> Mono],
      [start |-> 7,  end |-> 9,  original_pitch |-> 60, pitch_correction |-> 0, sample_type |-> Left],
      [start |-> 10, end |-> 12, original_pitch |-> 60, pitch_correction |-> 0, sample_type |-> Right]>>

Region(klo, khi, vlo, vhi, id) ==
    [key_lo |-> klo, key_hi |-> khi, vel_lo |-> vlo, vel_hi |-> vhi, id |-> id]

\* instrument zones: id is the sample id
Instruments ==
    <<[regions |-> <<Region(0, 127, 100, 127, 0), Region(0, 127, 1, 99, 1)>>],
      [regions |-> <<Region(0, 127, 0, 127, 2), Region(0, 127, 0, 127, 3)>>]>>

\* preset zones: id is the instrument id
\* (0, 2) is the key of two presets; the second has zones that overlap, one
\* that no instrument zone answers, and two that lead to the same sample
Presets ==
    <<[bank_number |-> 0, patch_number |-> 0, regions |-> <<Region(0, 72, 0, 127, 0)>>],
      [bank_number |-> 0, patch_number |-> 1, regions |-> <<Region(0, 127, 0, 127, 1)>>],
      [bank_number |-> 0, patch_number |-> 2, regions |-> <<Region(0, 127, 0, 127, 0)>>],
      [bank_number |-> 0, patch_number |-> 2,
       regions |-> <<Region(0, 72, 0, 127, 0), Region(60, 127, 64, 127, 1),
                     Region(0, 127, 0, 0, 0), Region(60, 60, 100, 127, 0)>>]>>

\* the value the HashMap keeps for a key: the last one collected, 0 for none
LastOf(hits) == IF hits = {} THEN 0 ELSE CHOOSE i \in hits : \A j \in hits : j <= i

\* SoundFontBank::new: (bank, patch) -> index of the preset (1-based here);
\* a later preset of the same (bank, patch) replaces an earlier one
PresetIndex(bank_number, patch_number) ==
    LastOf({i \in DOMAIN Presets :
               /\ Presets[i].bank_number = bank_number
               /\ Presets[i].patch_number = patch_number})

\* region.contains(note, velocity)
RegionContains(region, note, velocity) ==
    /\ region.key_lo <= note /\ note <= region.key_hi
    /\ region.vel_lo <= velocity /\ velocity <= region.vel_hi

RECURSIVE Flatten(_)
Flatten(ss) == IF ss = <<>> THEN <<>> ELSE Head(ss) \o Flatten(Tail(ss))

\* lines 566-569: the preset's regions that contain the note
PresetRegions(preset_index, note, velocity) ==
    SelectSeq(Presets[preset_index].regions, LAMBDA r : RegionContains(r, note, velocity))

\* faulty variant: the zones of the instruments are not filtered
InstrumentRegions_Unfiltered(preset_regions, note, velocity) ==
    Flatten([k \in DOMAIN preset_regions |-> Instruments[preset_regions[k].id + 1].regions])

\* lines 570-577: the regions, containing the note, of their instruments
InstrumentRegions(preset_regions, note, velocity) ==
    Flatten([k \in DOMAIN preset_regions |->
                SelectSeq(Instruments[preset_regions[k].id + 1].regions,
                          LAMBDA r : RegionContains(r, note, velocity))])

\* lines 578-580: their sample headers
HeadersOfRegions(instrument_regions) ==
    [k \in DOMAIN instrument_regions |-> SampleHeaders[instrument_regions[k].id + 1]]

\* lines 564-580 once the preset index is looked up
HeadersOfPreset(preset_index, note, velocity) ==
    IF preset_index = 0 THEN [found |-> FALSE, headers |-> <<>>]
    ELSE [found |-> TRUE,
          headers |-> HeadersOfRegions(
                          InstrumentRegions(PresetRegions(preset_index, note, velocity),
                                            note, velocity))]

\* SoundFontBank::get_sample_headers: [found |-> FALSE] is None
GetSampleHeaders(note, velocity, bank_number, patch_number) ==
    HeadersOfPreset(PresetIndex(bank_number, patch_number), note, velocity)

----------------------------------------------------------------------------
(* MidiAudioTrack, src/src/source.rs *)

Loop == "Loop"
Bar == "Bar"
Beat == "Beat"
Once == "Once"

\* MidiQueueEvent; event is "Play", "Stop" or "Queue", and next is the boxed
\* event of Queue(next), <<>> otherwise
QueueEvent(event, timing, looping) ==
    [event |-> event, timing |-> timing, looping |-> looping, next |-> <<>>]
QueueNext(new_event, timing, looping) ==
    [event |-> "Queue", timing |-> timing, looping |-> looping, next |-> <<new_event>>]

NoteOn(channel, note, velocity) ==
    [type |-> "NoteOn", channel |-> channel, note |-> note, velocity |-> velocity, tempo |-> 0]
NoteOff(channel, note) ==
    [type |-> "NoteOff", channel |-> channel, note |-> note, velocity |-> 0, tempo |-> 0]
SetTempo(tempo) ==
    [type |-> "SetTempo", channel |-> 0, note |-> 0, velocity |-> 0, tempo |-> tempo]

\* the empty HashMap of voices
NoVoices == [n \in {} |-> <<>>]

\* MidiAudioTrack::new
NewTrack(midi_track, beats_per_bar) ==
    LET samples_per_second == SamplesPerSecond
        beats_per_second == DefaultBeatsPerMinute \div 60
    IN  [midi_track |-> midi_track,
         channels |-> [i \in 0 .. NumChannels - 1 |->
                          [bank_number |-> IF i = PercussionChannel THEN PercussionBank ELSE 0,
                           patch_number |-> 0,
                           voices |-> NoVoices]],
         ticks_per_sample |->
             (midi_track.ticks_per_beat * beats_per_second * SamplesPerSecond)
                 \div samples_per_second,
         samples_per_second |-> samples_per_second,
         beats_per_second |-> beats_per_second,
         tick |-> 0,
         beat |-> 0,
         event_index |-> 0,
         beats_per_bar |-> beats_per_bar,
         queue |-> <<>>,
         is_playing |-> TRUE]

\* MidiAudioTrack::with_channel_patch
WithChannelPatch(track, channel_number, bank_number, patch_number) ==
    [track EXCEPT !.channels[channel_number] =
        [bank_number |-> bank_number, patch_number |-> patch_number, voices |-> NoVoices]]

\* MidiAudioTrack::with_queue
WithQueue(track, event) == [track EXCEPT !.queue = Append(@, event)]

\* MidiAudioTrack::stopped
Stopped(track) == [track EXCEPT !.is_playing = FALSE]

\* create_voice: speed = 2^((note - original_pitch + pitch_correction/100) / 12),
\* in half samples per frame; exact for whole octaves from one octave below
SpeedOf(note, header) ==
    LET semitones == note - header.original_pitch
    IN  IF semitones >= 0 THEN ToPos(1) * 2 ^ (semitones \div 12)
        ELSE ToPos(1) \div 2 ^ ((-semitones) \div 12)

\* lines 281-291: the VoiceSample of one sample header
NewVoiceSample(header, note, velocity) ==
    [speed |-> SpeedOf(note, header),
     current_sample |-> ToPos(header.start),
     end_sample |-> ToPos(header.end),
     sample_type |-> header.sample_type,
     volume |-> velocity]

\* faulty variant: a voice is made of an empty list of samples too
VoiceOfHeaders_KeepsEmpty(found, note, velocity) ==
    IF ~found.found
    THEN [some |-> FALSE, voice |-> [samples |-> <<>>]]
    ELSE [some |-> TRUE,
          voice |-> [samples |-> [k \in DOMAIN found.headers |->
                                     NewVoiceSample(found.headers[k], note, velocity)]]]

\* lines 279-296: [some |-> FALSE] is None
VoiceOfHeaders(found, note, velocity) ==
    IF ~found.found \/ found.headers = <<>>
    THEN [some |-> FALSE, voice |-> [samples |-> <<>>]]
    ELSE [some |-> TRUE,
          voice |-> [samples |-> [k \in DOMAIN found.headers |->
                                     NewVoiceSample(found.headers[k], note, velocity)]]]

\* MidiAudioTrack::create_voice
CreateVoice(track, channel_index, note, velocity) ==
    VoiceOfHeaders(GetSampleHeaders(note, velocity,
                                    track.channels[channel_index].bank_number,
                                    track.channels[channel_index].patch_number),
                   note, velocity)

\* the panics of create_voice: line 272 indexes self.channels with the
\* channel, and line 288 unwraps the conversion of every found header's
\* sample type into SampleType
HeadersPanic(found) ==
    found.found /\ \E k \in DOMAIN found.headers :
                      found.headers[k].sample_type \notin {Mono, Right, Left}
CreateVoicePanics(track, channel_index, note, velocity) ==
    \/ channel_index \notin DOMAIN track.channels
    \/ HeadersPanic(GetSampleHeaders(note, velocity,
                                     track.channels[channel_index].bank_number,
                                     track.channels[channel_index].patch_number))

\* faulty variant: a note that has a voice keeps it
InsertVoice_KeepsOld(voices, note, voice) ==
    [n \in DOMAIN voices \cup {note} |-> IF n \in DOMAIN voices THEN voices[n] ELSE voice]

\* HashMap::insert and HashMap::remove on a channel's voices
InsertVoice(voices, note, voice) ==
    [n \in DOMAIN voices \cup {note} |-> IF n = note THEN voice ELSE voices[n]]
RemoveVoice(voices, note) ==
    [n \in DOMAIN voices \ {note} |-> voices[n]]

\* lines 239-243: the voice, if one was made, goes into the channel's map
InsertMade(track, event, made) ==
    IF made.some /\ event.channel \in DOMAIN track.channels
    THEN [track EXCEPT !.channels[event.channel].voices =
                            InsertVoice(@, event.note, made.voice)]
    ELSE track

\* faulty variant: the tempo changes and ticks_per_sample stays
WithTempo_KeepsRate(track, beats_per_second) ==
    [track EXCEPT !.beats_per_second = beats_per_second]

\* lines 253-256
WithTempo(track, beats_per_second) ==
    [track EXCEPT
        !.beats_per_second = beats_per_second,
        !.ticks_per_sample =
            (track.midi_track.ticks_per_beat * beats_per_second * SamplesPerSecond)
                \div track.samples_per_second]

\* MidiAudioTrack::interpret_event
InterpretEvent(track, event) ==
    CASE event.type = "NoteOn" ->
            InsertMade(track, event,
                       CreateVoice(track, event.channel, event.note, event.velocity))
      [] event.type = "NoteOff" ->
            IF event.channel \in DOMAIN track.channels
            THEN [track EXCEPT !.channels[event.channel].voices = RemoveVoice(@, event.note)]
            ELSE track
      [] event.type = "SetTempo" -> WithTempo(track, event.tempo \div 60)

\* floor(beat) before and after the step of tick_timing
LastBeat(track) == track.beat \div SamplesPerSecond
CurrentBeat(track) ==
    (track.beat + (track.beats_per_second * SamplesPerSecond) \div track.samples_per_second)
        \div SamplesPerSecond

\* what tick_timing inserts into `timings`: Loop when beat == 0.0, Beat when
\* floor(beat) changes, Bar when floor(floor(beat) / beats_per_bar) changes too
TimingsOf(track) ==
    (IF track.beat = 0 THEN {Loop} ELSE {})
    \cup (IF LastBeat(track) # CurrentBeat(track) THEN {Beat} ELSE {})
    \cup (IF /\ LastBeat(track) # CurrentBeat(track)
             /\ LastBeat(track) \div track.beats_per_bar
                    # CurrentBeat(track) \div track.beats_per_bar
          THEN {Bar} ELSE {})

\* MidiAudioTrack::tick_timing: the track after it (tick += ticks_per_sample,
\* beat += beats_per_second / samples_per_second)
TickTiming(track) ==
    [track EXCEPT !.tick = @ + track.ticks_per_sample,
                  !.beat = @ + (track.beats_per_second * SamplesPerSecond)
                                    \div track.samples_per_second]

\* faulty variant: every queued event fires in every frame
Fires_Always(event, timings) == TRUE

\* line 354: does the event fire in a frame with these timings
Fires(event, timings) == event.timing \in timings

\* faulty variant: a fired event stays queued only when it is not a Loop one
StaysQueued_Flipped(event) == event.looping # Loop

\* line 362: does a fired event stay in the queue
StaysQueued(event) == event.looping = Loop

\* lines 353-366, the closure of retain for one event; acc carries is_playing,
\* the retained events, new_queue and the events whose match arm ran
RetainStep(acc, event, fired) ==
    [is_playing |-> CASE fired /\ event.event = "Play" -> TRUE
                      [] fired /\ event.event = "Stop" -> FALSE
                      [] OTHER -> acc.is_playing,
     retained  |-> IF fired => StaysQueued(event)
                   THEN Append(acc.retained, event) ELSE acc.retained,
     new_queue |-> IF fired /\ event.event = "Queue"
                   THEN acc.new_queue \o event.next ELSE acc.new_queue,
     applied   |-> IF fired THEN Append(acc.applied, event) ELSE acc.applied]

RECURSIVE RetainQueue(_, _, _)
RetainQueue(queue, timings, acc) ==
    IF queue = <<>> THEN acc
    ELSE RetainQueue(Tail(queue), timings,
                     RetainStep(acc, Head(queue), Fires(Head(queue), timings)))

\* faulty variant: the new events are put in front of the queue
QueueResult_NewFirst(track, r) ==
    [track |-> [track EXCEPT !.is_playing = r.is_playing,
                             !.queue = r.new_queue \o r.retained],
     applied |-> r.applied]

\* lines 352-367: the track after the retain and the append of new_queue
QueueResult(track, r) ==
    [track |-> [track EXCEPT !.is_playing = r.is_playing,
                             !.queue = r.retained \o r.new_queue],
     applied |-> r.applied]

\* lines 352-367 for one track
TickQueue(track, timings) ==
    QueueResult(track,
        RetainQueue(track.queue, timings,
            [is_playing |-> track.is_playing, retained |-> <<>>,
             new_queue |-> <<>>, applied |-> <<>>]))

\* faulty variant: an event is due only after its tick has passed
EventDue_Late(track) ==
    /\ track.event_index < Len(track.midi_track.events)
    /\ track.midi_track.events[track.event_index + 1].time
          < track.tick \div SamplesPerSecond

\* line 215-220: is there an event at the cursor, and is it due
EventDue(track) ==
    /\ track.event_index < Len(track.midi_track.events)
    /\ track.midi_track.events[track.event_index + 1].time
          <= track.tick \div SamplesPerSecond

\* faulty variant: the wrap also puts the tempo back to that of a new track
StepCursor_ResetsTempo(track) ==
    IF track.event_index + 1 >= Len(track.midi_track.events)
    THEN WithTempo([track EXCEPT !.event_index = 0, !.tick = 0, !.beat = 0],
                   DefaultBeatsPerMinute \div 60)
    ELSE [track EXCEPT !.event_index = @ + 1]

\* lines 223-228: the cursor moves on, and wraps behind the last event
AtLastEvent(track) == track.event_index + 1 >= Len(track.midi_track.events)
StepCursor(track) ==
    IF AtLastEvent(track)
    THEN [track EXCEPT !.event_index = 0, !.tick = 0, !.beat = 0]
    ELSE [track EXCEPT !.event_index = @ + 1]

\* MidiAudioTrack::tick_midi.  wraps counts the times the cursor went back to
\* zero in this call.  After a wrap tick is 0.0, so a second wrap means every
\* event has time 0 and the `while let` never ends: hung.
RECURSIVE TickMidiLoop(_, _)
TickMidiLoop(track, wraps) ==
    IF wraps >= 2 THEN [track |-> track, wraps |-> wraps, hung |-> TRUE]
    ELSE IF EventDue(track)
    THEN TickMidiLoop(
             StepCursor(InterpretEvent(track,
                            track.midi_track.events[track.event_index + 1].inner)),
             IF AtLastEvent(track) THEN wraps + 1 ELSE wraps)
    ELSE [track |-> track, wraps |-> wraps, hung |-> FALSE]

TickMidi(track) == TickMidiLoop(track, 0)

----------------------------------------------------------------------------
(* Voice and MidiRenderer::tick, src/src/source.rs *)

\* Voice::sample, the closure of the map: linear interpolation between the
\* waveform at floor and at ceil of the position, times volume, `as i32`
Interpolate(sample) ==
    LET floor == WaveAt(PosFloor(sample.current_sample))
        ceil == WaveAt(PosCeil(sample.current_sample))
        fraction == PosFract(sample.current_sample)
    IN  TruncDiv((ceil * fraction + floor * (ToPos(1) - fraction)) * sample.volume,
                 ToPos(1) * FullVelocity)

\* faulty variant: Left is heard on the slots after slot 0, Right on slot 0
Contributes_Swapped(sample, audio_channel) ==
    /\ sample.current_sample < sample.end_sample
    /\ \/ sample.sample_type = Mono
       \/ IF audio_channel = 0 THEN sample.sample_type = Right
                               ELSE sample.sample_type = Left

\* Voice::sample, the two filters
Contributes(sample, audio_channel) ==
    /\ sample.current_sample < sample.end_sample
    /\ \/ sample.sample_type = Mono
       \/ IF audio_channel = 0 THEN sample.sample_type = Left
                               ELSE sample.sample_type = Right

\* Voice::sample
VoiceSample(voice, audio_channel) ==
    SeqSum([k \in DOMAIN voice.samples |->
               IF Contributes(voice.samples[k], audio_channel)
               THEN Interpolate(voice.samples[k]) ELSE 0])

\* Voice::tick with VoiceSample::tick
VoiceTick(voice) ==
    [samples |-> [k \in DOMAIN voice.samples |->
                     [voice.samples[k] EXCEPT !.current_sample = @ + voice.samples[k].speed]]]

\* lines 375-380 for one track: the voices of all its channels, summed
TrackSum(track, audio_channel) ==
    SumFun([c \in DOMAIN track.channels |->
               SumFun([n \in DOMAIN track.channels[c].voices |->
                          VoiceSample(track.channels[c].voices[n], audio_channel)])])

\* lines 375-380: the sum over the voices of every track
MixSum(trs, audio_channel) ==
    SumFun([h \in DOMAIN trs |-> TrackSum(trs[h], audio_channel)])

\* faulty variant: the sum is cut to 16 bits instead of clamped
Clamp16_Wrap(sum) == ((sum - I16Min) % 65536) + I16Min

\* line 381: .clamp(i16::MIN as i32, i16::MAX as i32) as i16
Clamp16(sum) == Max(I16Min, Min(I16Max, sum))

\* lines 383-389 for one track
AdvanceVoices(track) ==
    [track EXCEPT !.channels =
        [c \in DOMAIN track.channels |->
            [track.channels[c] EXCEPT !.voices =
                [n \in DOMAIN track.channels[c].voices |->
                    VoiceTick(track.channels[c].voices[n])]]]]

\* faulty variant: tick_timing runs on every track, playing or not
\* (<<>> @@ f is the function f, with each of its values computed once)
TimingPhase_EveryTrack(trs) ==
    <<>> @@ [h \in DOMAIN trs |->
                [track |-> TickTiming(trs[h]), crossed |-> TimingsOf(trs[h])]]

\* lines 346-349: tick_timing on every playing track; crossed is what the
\* track's own call inserted into `timings`
TimingPhase(trs) ==
    <<>> @@ [h \in DOMAIN trs |->
                IF trs[h].is_playing
                THEN [track |-> TickTiming(trs[h]), crossed |-> TimingsOf(trs[h])]
                ELSE [track |-> trs[h], crossed |-> {}]]

\* the HashSet `timings` after line 349
TimingsOfFrame(st) == UNION {st[h].crossed : h \in DOMAIN st}

\* lines 351-368: the queue of every track against the frame's timings
QueueTrack(s, q) == [track |-> q.track, crossed |-> s.crossed, applied |-> q.applied]
QueuePhaseWith(st, timings) ==
    <<>> @@ [h \in DOMAIN st |-> QueueTrack(st[h], TickQueue(st[h].track, timings))]
QueuePhase(st) == QueuePhaseWith(st, TimingsOfFrame(st))

\* lines 370-372: tick_midi on every track that is playing now
MidiTrackStep(s, m) ==
    [track |-> m.track, crossed |-> s.crossed, applied |-> s.applied,
     wraps |-> m.wraps, hung |-> m.hung]
MidiPhase(st) ==
    <<>> @@ [h \in DOMAIN st |->
                IF st[h].track.is_playing
                THEN MidiTrackStep(st[h], TickMidi(st[h].track))
                ELSE MidiTrackStep(st[h], [track |-> st[h].track, wraps |-> 0, hung |-> FALSE])]

\* lines 345-373: the sequencer part of tick, run for output slot 0 only
Sequence(trs, audio_channel) ==
    IF audio_channel = 0 THEN MidiPhase(QueuePhase(TimingPhase(trs)))
    ELSE <<>> @@ [h \in DOMAIN trs |->
                     [track |-> trs[h], crossed |-> {}, applied |-> <<>>,
                      wraps |-> 0, hung |-> FALSE]]

\* the tracks of a sequencer result
TracksOf(st) == <<>> @@ [h \in DOMAIN st |-> st[h].track]

\* lines 375-391: the mix, then the advance of the voices after slot 0
MixPhase(st, mixed, audio_channel) ==
    [tracks |-> IF audio_channel = 0
                THEN [h \in DOMAIN mixed |-> AdvanceVoices(mixed[h])] ELSE mixed,
     timings |-> TimingsOfFrame(st),
     crossed |-> [h \in DOMAIN st |-> st[h].crossed],
     applied |-> [h \in DOMAIN st |-> st[h].applied],
     wraps |-> [h \in DOMAIN st |-> st[h].wraps],
     mixed |-> mixed,
     sample |-> Clamp16(MixSum(mixed, audio_channel)),
     hung |-> \E h \in DOMAIN st : st[h].hung]

TickOf(st, audio_channel) == MixPhase(st, TracksOf(st), audio_channel)

\* MidiRenderer::tick on the track map trs for output slot audio_channel.
\*   crossed[h]  what track h's own tick_timing inserted into `timings`
\*   applied[h]  the queue events of h applied in this call
\*   wraps[h]    cursor wraps of h in this call
\*   mixed       the tracks as the mix (lines 375-381) read them
\*   hung        some tick_midi never returns, and so neither does tick
Tick(trs, audio_channel) == TickOf(Sequence(trs, audio_channel), audio_channel)

----------------------------------------------------------------------------
(* The mixers the model starts from: MidiAudio::new, then with_track *)

Event(time, inner) == [time |-> time, inner |-> inner]

\* two overlapping loud notes, the last event at tick 4
MelodyTrack ==
    [events |-> <<Event(0, NoteOn(0, 60, 127)), Event(1, NoteOn(0, 72, 127)),
                  Event(2, NoteOff(0, 72)), Event(4, NoteOff(0, 60))>>,
     ticks_per_beat |-> 2]

\* two soft notes on two channels, then a slower tempo
DrumTrack ==
    [events |-> <<Event(0, NoteOn(0, 60, 64)), Event(0, NoteOn(1, 60, 64)),
                  Event(1, SetTempo(60)), Event(2, NoteOff(0, 60))>>,
     ticks_per_beat |-> 2]

\* a stereo note on channel 1
StereoTrack ==
    [events |-> <<Event(0, NoteOn(1, 48, 127)), Event(3, NoteOff(1, 48))>>,
     ticks_per_beat |-> 2]

\* a track that only sets the tempo, at tick 0
TempoTrack == [events |-> <<Event(0, SetTempo(60))>>, ticks_per_beat |-> 2]

\* MidiAudio.tracks after with_track of each: handles count from 0
TrackMap(seq) == [h \in 0 .. Len(seq) - 1 |-> seq[h + 1]]

Mixers ==
    { TrackMap(<<NewTrack(MelodyTrack, 2)>>),
      TrackMap(<<NewTrack(DrumTrack, 1)>>),
      TrackMap(<<NewTrack(TempoTrack, 2)>>),
      TrackMap(<<NewTrack(MelodyTrack, 2),
                 Stopped(WithChannelPatch(NewTrack(StereoTrack, 1), 1, 0, 1))>>) }

\* the events the control side queues
QueueEvents ==
    { QueueEvent("Stop", Bar, Once),
      QueueEvent("Stop", Beat, Loop),
      QueueEvent("Play", Beat, Once),
      QueueEvent("Play", Loop, Once),
      QueueNext(QueueEvent("Stop", Bar, Once), Loop, Loop) }

\* Note::position() of the notes the control side plays
ControlNotes == {48}

\* what the mix reads of the tracks: which are playing, and every voice,
\* named by its track, channel and note
View(trs) ==
    [is_playing |-> [h \in DOMAIN trs |-> trs[h].is_playing],
     voices |-> UNION {UNION {{<<h, c, n, trs[h].channels[c].voices[n]>> :
                                 n \in DOMAIN trs[h].channels[c].voices} :
                              c \in DOMAIN trs[h].channels} :
                       h \in DOMAIN trs}]

\* the mixer specifications leave the compiler aside
NoCompiler ==
    /\ file = [tracks |-> <<>>]
    /\ compiled = <<>>
    /\ mpc = "done"

\* the mixer after construction, for a set of mixers to start from
MixerStart(mixers) ==
    /\ NoCompiler
    /\ tracks \in mixers
    /\ current_audio_channel = 0
    /\ hung = FALSE
    /\ obs = [h \in DOMAIN tracks |->
                 [crossed |-> {}, applied |-> <<>>, wraps |-> 0, framed |-> FALSE,
                  pass_loops |-> 0, wrap_loops |-> -1, wrapped |-> FALSE]]
    /\ rendered = [slot |-> -1, sample |-> 0, timings |-> {},
                   mixed |-> View(tracks), first |-> View(tracks)]
    /\ control_ops = 0

\* the mixer alone: every call of tick is a step, the buffer is left aside
MixerInit ==
    /\ MixerStart(Mixers)
    /\ NoThreads
    /\ NoCalls

\* the model follows a frame only while the counters stay within the bounds
WithinBounds(trs) ==
    \A h \in DOMAIN trs :
        /\ Len(trs[h].queue) <= MaxQueueLen
        /\ trs[h].beat <= MaxBeats * SamplesPerSecond
        /\ \A c \in DOMAIN trs[h].channels :
              \A n \in DOMAIN trs[h].channels[c].voices :
                  \A k \in DOMAIN trs[h].channels[c].voices[n].samples :
                      trs[h].channels[c].voices[n].samples[k].current_sample
                          <= ToPos(MaxPosition)

\* frames since the last wrap in which the track signalled Loop, at most 2
LoopsSeen(old, crossed) == Min(2, old.pass_loops + (IF Loop \in crossed THEN 1 ELSE 0))

\* history of a track after a call of tick for slot 0: wrap_loops is the
\* number of Loop frames between its last two wraps, -1 before the second
ObserveFrame(old, crossed, applied, wraps) ==
    [crossed |-> crossed,
     applied |-> applied,
     wraps |-> wraps,
     framed |-> TRUE,
     pass_loops |-> IF wraps > 0 THEN 0 ELSE LoopsSeen(old, crossed),
     wrap_loops |-> CASE wraps >= 2 -> 0
                      [] wraps = 1 /\ old.wrapped -> LoopsSeen(old, crossed)
                      [] OTHER -> old.wrap_loops,
     wrapped |-> old.wrapped \/ wraps > 0]

Observe(old, r, h, audio_channel) ==
    IF audio_channel # 0 THEN [old EXCEPT !.framed = FALSE]
    ELSE ObserveFrame(old, r.crossed[h], r.applied[h], r.wraps[h])

\* the step of Render when the call of tick has the result r
RenderResult(r) ==
    /\ WithinBounds(r.tracks)
    /\ tracks' = r.tracks
    /\ hung' = r.hung
    /\ UNCHANGED control_ops
    /\ obs' = [h \in DOMAIN tracks |-> Observe(obs[h], r, h, current_audio_channel)]
    /\ IF r.hung
       THEN UNCHANGED <<current_audio_channel, rendered>>
       ELSE /\ current_audio_channel' = (current_audio_channel + 1) % NumAudioChannels
            /\ rendered' = [slot |-> current_audio_channel,
                            sample |-> r.sample,
                            timings |-> r.timings,
                            mixed |-> View(r.mixed),
                            first |-> IF current_audio_channel = 0
                                      THEN View(r.mixed) ELSE rendered.first]

\* one pass of the body of the loop in MidiRenderer::loop, lines 329-332, as
\* far as the tracks go: a call of tick, then the step of the output slot
Render ==
    /\ ~hung
    /\ \E r \in {Tick(tracks, current_audio_channel)} : RenderResult(r)
    /\ UNCHANGED mergeVars
    /\ UNCHANGED callVars
    /\ UNCHANGED threadVars

\* a call of the control side: it waits for the tracks lock, which a hung
\* renderer never gives back
ControlCall ==
    /\ ~hung
    /\ control_ops < MaxControlOps
    /\ control_ops' = control_ops + 1

\* MidiAudio::queue, lines 45-49; a handle without a track changes nothing
QueueCall(handle, event) ==
    /\ ControlCall
    /\ IF handle \in DOMAIN tracks
       THEN /\ Len(tracks[handle].queue) < MaxQueueLen
            /\ tracks' = [tracks EXCEPT ![handle].queue = Append(@, event)]
       ELSE UNCHANGED tracks
    /\ UNCHANGED <<current_audio_channel, hung, obs, rendered>>

Queue(handle, event) ==
    /\ QueueCall(handle, event)
    /\ UNCHANGED mergeVars
    /\ UNCHANGED callVars
    /\ UNCHANGED threadVars

\* MidiAudio::start_playing_note with note.position() = position
StartPlayingNote(position, handle) ==
    /\ ControlCall
    /\ handle \in DOMAIN tracks
    /\ tracks' = [tracks EXCEPT ![handle] =
                     InterpretEvent(@, NoteOn(0, position, FullVelocity))]
    /\ UNCHANGED <<current_audio_channel, hung, obs, rendered>>
    /\ UNCHANGED mergeVars
    /\ UNCHANGED callVars
    /\ UNCHANGED threadVars

\* MidiAudio::stop_playing_note with note.position() = position
StopPlayingNote(position, handle) ==
    /\ ControlCall
    /\ handle \in DOMAIN tracks
    /\ tracks' = [tracks EXCEPT ![handle] = InterpretEvent(@, NoteOff(0, position))]
    /\ UNCHANGED <<current_audio_channel, hung, obs, rendered>>
    /\ UNCHANGED mergeVars
    /\ UNCHANGED callVars
    /\ UNCHANGED threadVars

\* the handles add_track has given out
Handles == DOMAIN tracks

MixerNext ==
    \/ Render
    \/ \E h \in Handles, e \in QueueEvents : Queue(h, e)
    \/ \E h \in Handles, p \in ControlNotes : StartPlayingNote(p, h)
    \/ \E h \in Handles, p \in ControlNotes : StopPlayingNote(p, h)

Spec == MixerInit /\ [][MixerNext]_vars

----------------------------------------------------------------------------
(* Properties of the sequencer and the mix, checked under Spec *)

\* a step that renders slot 0 of a frame: the call of tick that runs the
\* sequencer (a call that hangs renders nothing and does not move the slot)
FrameStep == current_audio_channel = 0 /\ current_audio_channel' = 1

\* the events of a queue that are of one kind
HasEvent(queue, event) == \E k \in DOMAIN queue : queue[k].event = event

\* the track, advanced by one frame, is in another bar than before
CrossesBar(track) ==
    (track.beat \div SamplesPerSecond) \div track.beats_per_bar
        # (CurrentBeat(track) \div track.beats_per_bar)

\* a Stop that is due at a Bar, and one that is due at something else
StopAtBarQueued(track) ==
    \E k \in DOMAIN track.queue :
        track.queue[k].event = "Stop" /\ track.queue[k].timing = Bar
OtherStopQueued(track) ==
    \E k \in DOMAIN track.queue :
        track.queue[k].event = "Stop" /\ track.queue[k].timing # Bar

\* the mixer has one track, with handle 0
SingleTrack == DOMAIN tracks = {0}

\* C1: in a mixer whose only track T plays with a Stop at Bar queued, a frame
\* in which T crosses no Bar leaves T playing (no Stop of another timing being
\* queued), the frame in which T crosses a Bar leaves it stopped, and a stopped
\* T stays stopped over every step, each unless a Play is applied in the frame
C1_StopAtBar ==
    [][ /\ (SingleTrack /\ FrameStep /\ tracks[0].is_playing /\ StopAtBarQueued(tracks[0]))
            => IF CrossesBar(tracks[0])
               THEN ~tracks'[0].is_playing \/ HasEvent(obs'[0].applied, "Play")
               ELSE tracks'[0].is_playing \/ OtherStopQueued(tracks[0])
        /\ (SingleTrack /\ ~tracks[0].is_playing)
            => \/ ~tracks'[0].is_playing
               \/ FrameStep /\ HasEvent(obs'[0].applied, "Play")
      ]_vars

\* C1 witness: the only track has played a whole bar, the frame just
\* rendered crossed the Bar and applied the Stop, and the track is stopped
C1_Witness ==
    /\ SingleTrack
    /\ obs[0].framed
    /\ Bar \in obs[0].crossed
    /\ tracks[0].beat >= tracks[0].beats_per_bar * SamplesPerSecond
    /\ \E k \in DOMAIN obs[0].applied :
          obs[0].applied[k] = QueueEvent("Stop", Bar, Once)
    /\ ~tracks[0].is_playing

\* the boxed events of the Queue events among `events`, in their order
NextsOf(events) == Flatten([k \in DOMAIN events |-> events[k].next])

\* C2: in every frame and for every track, the events applied are those of
\* the queue whose timing is signalled, each once and in order; the queue
\* keeps, in order, the events not signalled and the signalled Loop ones, and
\* loses the signalled Once ones (the events boxed in applied Queue events
\* are put behind them)
C2_LoopStaysOnceLeaves ==
    [][ FrameStep =>
          \A h \in DOMAIN tracks :
              /\ obs'[h].applied =
                    SelectSeq(tracks[h].queue, LAMBDA e : e.timing \in rendered'.timings)
              /\ tracks'[h].queue =
                    SelectSeq(tracks[h].queue,
                              LAMBDA e : e.timing \notin rendered'.timings \/ e.looping = Loop)
                        \o NextsOf(obs'[h].applied)
      ]_vars

\* C2 witness: a frame has applied a Loop event and a Once event of one
\* track; the Loop event is still queued, the Once event is not
C2_Witness ==
    \E h \in DOMAIN tracks :
        /\ obs[h].framed
        /\ \E j, k \in DOMAIN obs[h].applied :
              /\ obs[h].applied[j].looping = Loop
              /\ obs[h].applied[k].looping = Once
              /\ \E n \in DOMAIN tracks[h].queue : tracks[h].queue[n] = obs[h].applied[j]
              /\ \A n \in DOMAIN tracks[h].queue : tracks[h].queue[n] # obs[h].applied[k]

\* C4: between two consecutive wraps of a track's event cursor there is
\* exactly one frame in which the track signals Loop
C4_LoopOncePerPass ==
    \A h \in DOMAIN obs : obs[h].wrap_loops \in {-1, 1}

\* the sum of Voice::sample over a set of voices of the mix
RECURSIVE SumOfVoices(_, _)
SumOfVoices(voices, audio_channel) ==
    IF voices = {} THEN 0
    ELSE LET v == CHOOSE v \in voices : TRUE
         IN  VoiceSample(v[4], audio_channel) + SumOfVoices(voices \ {v}, audio_channel)

\* the sum the last rendered sample was made of
RenderedSum == SumOfVoices(rendered.mixed.voices, rendered.slot)

\* C7: every rendered sample is the sum of the voices' contributions when
\* that is within [-32768, 32767], exactly 32767 when the sum is above and
\* exactly -32768 when it is below
C7_SampleIsClampedSum ==
    rendered.slot # -1 =>
        /\ RenderedSum > I16Max => rendered.sample = I16Max
        /\ RenderedSum < I16Min => rendered.sample = I16Min
        /\ (I16Min <= RenderedSum /\ RenderedSum <= I16Max) => rendered.sample = RenderedSum

\* C7 witness: a sample rendered from two voices whose sum is above 32767
C7_Witness ==
    /\ rendered.slot # -1
    /\ Cardinality(rendered.mixed.voices) >= 2
    /\ RenderedSum > I16Max
    /\ rendered.sample = I16Max

\* C8: slot 1 of a frame is rendered from the voices, at the positions, that
\* slot 0 of the frame was rendered from
C8_SlotsReadSamePositions ==
    rendered.slot = 1 => rendered.mixed.voices = rendered.first.voices

\* the voices of the mix that belong to playing tracks
PlayingVoices(mixed) == {v \in mixed.voices : mixed.is_playing[v[1]]}

\* C9: every rendered sample is the clamped sum over the voices of the
\* tracks that are playing when it is mixed
C9_OnlyPlayingTracksMixed ==
    rendered.slot # -1 =>
        rendered.sample =
            Max(I16Min, Min(I16Max, SumOfVoices(PlayingVoices(rendered.mixed), rendered.slot)))

\* C15: a queue event of a track is applied in a frame only if that track
\* itself crossed a boundary of the event's timing in the frame
C15_OwnBoundaryOnly ==
    \A h \in DOMAIN obs :
        obs[h].framed =>
            \A k \in DOMAIN obs[h].applied :
                obs[h].applied[k].timing \in obs[h].crossed

\* C22: a track signals Loop in a frame exactly when its cursor wrapped to
\* zero in that frame, and so not in the first frame of a fresh track
C22_LoopIffWrapped ==
    \A h \in DOMAIN obs :
        obs[h].framed => (Loop \in obs[h].crossed <=> obs[h].wraps > 0)

\* the track as tick_midi finds it in a frame: after tick_timing and the
\* queue of the frame
BeforeDispatch(h) == QueuePhase(TimingPhase(tracks))[h].track

\* how many events in a row, from the one behind position `from`, have a
\* tick not after `tick`
DueRun(events, from, tick) ==
    CHOOSE n \in 0 .. Len(events) - from :
        /\ \A k \in from + 1 .. from + n : events[k].time * SamplesPerSecond <= tick
        /\ from + n < Len(events) => events[from + n + 1].time * SamplesPerSecond > tick

\* events first .. last of the track, in compiled order
EventsFrom(track, first, last) ==
    [k \in 1 .. last - first + 1 |-> track.midi_track.events[first + k - 1].inner]

RECURSIVE InterpretAll(_, _)
InterpretAll(track, inners) ==
    IF inners = <<>> THEN track
    ELSE InterpretAll(InterpretEvent(track, Head(inners)), Tail(inners))

\* the dispatch of a frame, said without the loop: the events due from the
\* cursor on, each once and in order; if they reach the end of the list,
\* tick and beat are zero again and the events of tick 0 follow
RunsToEnd(track) ==
    LET events == track.midi_track.events
    IN  /\ events # <<>>
        /\ track.event_index + DueRun(events, track.event_index, track.tick) = Len(events)
DispatchedInFrame(track) ==
    LET events == track.midi_track.events
        last == track.event_index + DueRun(events, track.event_index, track.tick)
    IN  IF RunsToEnd(track)
        THEN EventsFrom(track, track.event_index + 1, last)
                 \o EventsFrom(track, 1, DueRun(events, 0, 0))
        ELSE EventsFrom(track, track.event_index + 1, last)
AfterDispatch(track) ==
    LET events == track.midi_track.events
        done == InterpretAll(track, DispatchedInFrame(track))
    IN  IF RunsToEnd(track)
        THEN [done EXCEPT !.event_index = DueRun(events, 0, 0), !.tick = 0, !.beat = 0]
        ELSE [done EXCEPT !.event_index =
                              track.event_index + DueRun(events, track.event_index, track.tick)]

\* the event at the cursor, if any, is still to come
NextEventLater(track) ==
    track.event_index < Len(track.midi_track.events)
        => track.midi_track.events[track.event_index + 1].time * SamplesPerSecond > track.tick

\* C26: the dispatch of a frame, for a track that plays, handles the events
\* due from the cursor on in compiled order, each once, all of them in that
\* frame, and leaves at the cursor an event whose tick is after the track's
C26_DueEventsDispatchedInOrder ==
    [][FrameStep =>
          \A h \in DOMAIN tracks :
              BeforeDispatch(h).is_playing =>
                  /\ tracks'[h] = AdvanceVoices(AfterDispatch(BeforeDispatch(h)))
                  /\ NextEventLater(tracks'[h])]_vars

\* the only track has just dispatched its last event and, its tick back at
\* zero, the two events of tick 0 again
C26_Witness ==
    /\ SingleTrack
    /\ tracks[0].midi_track = DrumTrack
    /\ tracks[0].is_playing
    /\ obs[0].framed
    /\ obs[0].wraps = 1
    /\ tracks[0].event_index = 2
    /\ NextEventLater(tracks[0])

\* the Queue events of a queue whose timing is among the signalled ones, and
\* the entries a frame with these timings keeps
FiredQueueEvents(queue, timings) ==
    SelectSeq(queue, LAMBDA e : e.event = "Queue" /\ e.timing \in timings)
KeptEntries(queue, timings) ==
    SelectSeq(queue, LAMBDA e : e.timing \notin timings \/ e.looping = Loop)

\* C27: the event boxed in a Queue event that fires is put at the end of the
\* same track's queue, behind every entry that was there and stays, and is
\* not applied in that frame: what a frame applies was queued before it
C27_QueuedNextWaits ==
    [][FrameStep =>
          \A h \in DOMAIN tracks :
              LET fired == FiredQueueEvents(tracks[h].queue, rendered'.timings)
                  kept == KeptEntries(tracks[h].queue, rendered'.timings)
              IN  /\ Len(tracks'[h].queue) = Len(kept) + Len(fired)
                  /\ \A k \in DOMAIN kept : tracks'[h].queue[k] = kept[k]
                  /\ \A k \in DOMAIN fired :
                        tracks'[h].queue[Len(kept) + k] = fired[k].next[1]
                  /\ Len(obs'[h].applied)
                        = Cardinality({k \in DOMAIN tracks[h].queue :
                                          tracks[h].queue[k].timing \in rendered'.timings})
                  /\ \A a \in DOMAIN obs'[h].applied :
                        \E k \in DOMAIN tracks[h].queue :
                            tracks[h].queue[k] = obs'[h].applied[a]]_vars

\* a frame has applied a looping Queue event: it is still queued, the Stop
\* it boxed is behind it, and the Stop has not been applied
C27_Witness ==
    /\ SingleTrack
    /\ obs[0].framed
    /\ Len(obs[0].applied) = 1
    /\ obs[0].applied[1].event = "Queue"
    /\ tracks[0].queue = <<obs[0].applied[1], obs[0].applied[1].next[1]>>
    /\ tracks[0].is_playing

\* ticks_per_sample == ticks_per_beat * beats_per_second / samples_per_second,
\* in the units of the model (ticks_per_sample and beats_per_second are kept
\* in 1/SamplesPerSecond)
RateMatchesTempo(track) ==
    track.ticks_per_sample * track.samples_per_second
        = track.midi_track.ticks_per_beat * track.beats_per_second * SamplesPerSecond

\* C28: every track, in every state, has the ticks_per_sample that its
\* ticks_per_beat, its tempo and the sample rate give
C28_TicksPerSampleFollowsTempo == \A h \in DOMAIN tracks : RateMatchesTempo(tracks[h])

\* the drum track has dispatched its Set-Tempo of 60 beats per minute and
\* moves at half the speed it was created with
C28_Witness ==
    /\ SingleTrack
    /\ tracks[0].midi_track = DrumTrack
    /\ tracks[0].beats_per_second = 1
    /\ 2 * tracks[0].ticks_per_sample = NewTrack(DrumTrack, 1).ticks_per_sample
    /\ RateMatchesTempo(tracks[0])

\* the voice samples the mix of the last call read for its slot
SamplesRead ==
    UNION {{v[4].samples[k] : k \in {m \in DOMAIN v[4].samples :
                                        Contributes(v[4].samples[m], rendered.slot)}} :
           v \in rendered.mixed.voices}

\* the waveform indices Voice::sample reads for a voice sample
IndicesRead(sample) == {PosFloor(sample.current_sample), PosCeil(sample.current_sample)}

\* the indices of the sample headers that end where the voice sample ends
BoundsOf(sample) ==
    UNION {SampleHeaders[id].start .. SampleHeaders[id].end - 1 :
           id \in {d \in DOMAIN SampleHeaders :
                      ToPos(SampleHeaders[d].end) = sample.end_sample}}

\* C31: a voice sample is read only while current_sample < end_sample, and
\* the waveform indices read for it, floor and ceil of current_sample, lie
\* within start .. end - 1 of its sample
C31_ReadsInsideSample ==
    rendered.slot # -1 =>
        \A sample \in SamplesRead :
            /\ sample.current_sample < sample.end_sample
            /\ IndicesRead(sample) \subseteq BoundsOf(sample)

----------------------------------------------------------------------------
(* The buffering bridge: MidiRenderer::loop on the renderer thread and     *)
(* MidiDecoder::next on the consumer's, src/src/source.rs.  A statement    *)
(* that takes a mutex and gives it back is one step, which waits for the   *)
(* mutex to be free; the renderer keeps the tracks and the soundfont mutex *)
(* over the steps of a whole batch.                                        *)

\* samples the consumer may pull beyond the capacity the buffer should have
MaxOverrun == 1

\* one second of audio: samples_per_second frames of num_audio_channels slots
BufferCapacity == NumAudioChannels * SamplesPerSecond

\* calls of MidiDecoder::next the model follows
MaxPulls == BufferCapacity + MaxOverrun

\* the mixers and the queue events of the threaded specification
ThreadMixers ==
    { TrackMap(<<NewTrack(MelodyTrack, 2)>>),
      TrackMap(<<NewTrack(TempoTrack, 2)>>) }
ThreadQueueEvents == { QueueEvent("Stop", Bar, Once) }

ThreadInit ==
    /\ MixerStart(ThreadMixers)
    /\ NoThreads
    /\ NoCalls

\* faulty variant: next also takes the tracks mutex
NextLocks_WithTracks == {"requested_samples", "buffer", "tracks"}

\* lines 399-400: the mutexes MidiDecoder::next takes
NextLocks == {"requested_samples", "buffer"}

\* a thread that needs these mutexes can go on
AllFree(needed) == \A l \in needed : locks[l] = "free"

\* line 323: let samples = *self.requested_samples.lock().unwrap(), and the
\* test of line 324
RendererRead ==
    /\ rpc = "top"
    /\ AllFree({"requested_samples"})
    /\ requested_samples > 0
    /\ samples' = requested_samples
    /\ rpc' = "lock"
    /\ UNCHANGED <<requested_samples, buffer, locks, left, cpc, pulls, pulled, pushed>>
    /\ UNCHANGED mixerVars
    /\ UNCHANGED mergeVars
    /\ UNCHANGED callVars

\* lines 325-326: the renderer takes the tracks and the soundfont mutex
RendererLock ==
    /\ rpc = "lock"
    /\ AllFree({"tracks", "soundfont"})
    /\ locks' = [locks EXCEPT !.tracks = "renderer", !.soundfont = "renderer"]
    /\ left' = samples
    /\ rpc' = "batch"
    /\ UNCHANGED <<requested_samples, buffer, samples, cpc, pulls, pulled, pushed>>
    /\ UNCHANGED mixerVars
    /\ UNCHANGED mergeVars
    /\ UNCHANGED callVars

\* line 330: push_back of a rendered sample; nothing is pushed by a call of
\* tick that does not return
PushBack(r) == IF r.hung THEN buffer ELSE Append(buffer, r.sample)

\* lines 328-333: one iteration of the batch
RenderSampleWith(r) ==
    /\ RenderResult(r)
    /\ buffer' = PushBack(r)
    /\ left' = IF r.hung THEN left ELSE left - 1
    /\ pushed' = IF r.hung THEN pushed ELSE pushed + 1

RenderSample ==
    /\ rpc = "batch"
    /\ left > 0
    /\ ~hung
    /\ AllFree({"buffer"})
    /\ RenderSampleWith(Tick(tracks, current_audio_channel))
    /\ UNCHANGED <<requested_samples, locks, rpc, samples, cpc, pulls, pulled>>
    /\ UNCHANGED mergeVars
    /\ UNCHANGED callVars

\* faulty variant: the count is cleared, and the pulls made during the batch
\* are forgotten
AfterBatch_Cleared(requested, batch) == 0

\* line 335: *self.requested_samples.lock().unwrap() -= samples
AfterBatch(requested, batch) == requested - batch

\* lines 335-336: the batch is taken off requested_samples, the guards drop
RendererFinish ==
    /\ rpc = "batch"
    /\ left = 0
    /\ AllFree({"requested_samples"})
    /\ requested_samples' = AfterBatch(requested_samples, samples)
    /\ locks' = [locks EXCEPT !.tracks = "free", !.soundfont = "free"]
    /\ rpc' = "top"
    /\ UNCHANGED <<buffer, samples, left, cpc, pulls, pulled, pushed>>
    /\ UNCHANGED mixerVars
    /\ UNCHANGED mergeVars
    /\ UNCHANGED callVars

\* line 399: *self.requested_samples.lock().unwrap() += 1
PullRequest ==
    /\ cpc = "idle"
    /\ pulls < MaxPulls
    /\ AllFree(NextLocks)
    /\ requested_samples' = requested_samples + 1
    /\ cpc' = "requested"
    /\ pulls' = pulls + 1
    /\ pulled' = [pulled EXCEPT !.began = rpc, !.ended = "none"]
    /\ UNCHANGED <<buffer, locks, rpc, samples, left, pushed>>
    /\ UNCHANGED mixerVars
    /\ UNCHANGED mergeVars
    /\ UNCHANGED callVars

\* faulty variant: the newest sample is returned, also from an empty buffer
PopFront_Last(buf) == IF buf = <<>> THEN -1 ELSE buf[Len(buf)]

\* line 400: pop_front().unwrap_or(0)
PopFront(buf) == IF buf = <<>> THEN 0 ELSE Head(buf)

\* line 400: Some(self.buffer.lock().unwrap().pop_front().unwrap_or(0))
PullPop ==
    /\ cpc = "requested"
    /\ AllFree(NextLocks)
    /\ buffer' = IF buffer = <<>> THEN buffer ELSE Tail(buffer)
    /\ cpc' = "idle"
    /\ pulled' = [began |-> pulled.began, ended |-> rpc,
                  empty |-> buffer = <<>>, value |-> PopFront(buffer)]
    /\ UNCHANGED <<requested_samples, locks, rpc, samples, left, pulls, pushed>>
    /\ UNCHANGED mixerVars
    /\ UNCHANGED mergeVars
    /\ UNCHANGED callVars

\* MidiAudio::queue on the control side's thread: the guard of the tracks
\* mutex lives for the one statement
ControlQueue(handle, event) ==
    /\ AllFree({"tracks"})
    /\ QueueCall(handle, event)
    /\ UNCHANGED threadVars
    /\ UNCHANGED mergeVars
    /\ UNCHANGED callVars

ThreadNext ==
    \/ RendererRead
    \/ RendererLock
    \/ RenderSample
    \/ RendererFinish
    \/ PullRequest
    \/ PullPop
    \/ \E h \in Handles, e \in ThreadQueueEvents : ControlQueue(h, e)

SpecThreads == ThreadInit /\ [][ThreadNext]_vars

\* the renderer is inside a batch, with both mutexes, and has samples to render
MidBatch == rpc = "batch" /\ left > 0 /\ locks.tracks = "renderer" /\ locks.soundfont = "renderer"

\* C3: a pull on an empty buffer returns 0, and next never waits: whatever
\* the renderer does, and whoever holds the tracks or the soundfont mutex,
\* each of the two statements of next can run
C3_PullNeverWaits ==
    /\ pulled.empty => pulled.value = 0
    /\ (cpc = "idle" /\ pulls < MaxPulls) => ENABLED PullRequest
    /\ cpc = "requested" => ENABLED PullPop

\* C3 witness: a pull that began and ended while the renderer was inside a
\* batch found the buffer empty and returned 0; the renderer is still inside
\* the batch
C3_Witness ==
    /\ MidBatch
    /\ cpc = "idle"
    /\ pulled.began = "batch"
    /\ pulled.ended = "batch"
    /\ pulled.empty
    /\ pulled.value = 0

\* C10: the shared buffer never holds more than one second of audio
C10_BufferWithinCapacity == Len(buffer) <= BufferCapacity

\* a pull made while the renderer is inside a batch, counted after the batch
PullDuringBatch == rpc = "top" /\ pushed > 0 /\ requested_samples > 0 /\ pulled.began = "batch"

\* C16: the samples pushed never outnumber the pulls, and between batches
\* the samples pushed and the samples still requested add up to the pulls
C16_PushedMatchesRequested ==
    /\ pushed <= pulls
    /\ rpc = "top" => pushed + requested_samples = pulls

\* a batch has ended with a pull made during it still to be rendered
C16_Witness == PullDuringBatch /\ pushed + requested_samples = pulls

\* C20: the event dispatch of a frame ends: the renderer is never inside a
\* call of tick_midi that does not return, holding the tracks mutex with
\* samples of its batch still to render
C20_TickMidiTerminates == ~(hung /\ locks.tracks = "renderer" /\ left > 0)

\* every call of tick pushes one sample and moves the output slot, so the
\* n-th sample pushed (from 0) was rendered for slot n mod num_audio_channels
PushedInSlotOrder == current_audio_channel = pushed % NumAudioChannels

\* the output slot the front of the buffer was rendered for
SlotOfFront == (pushed - Len(buffer)) % NumAudioChannels

\* the second statement of a call of next, which returns its value
PopStep == cpc = "requested" /\ cpc' = "idle"

\* C23: the k-th value the consumer gets (from 0, silence counted), when it
\* is a rendered sample, was rendered for output slot k mod 2
C23_InterleavingKept ==
    [][(PopStep /\ buffer # <<>>) => SlotOfFront = (pulls - 1) % NumAudioChannels]_vars

\* C11: between the rendering of slot 0 and of slot 1 of a frame no step
\* changes the tracks: their queues, voices and flags are those slot 0 left
C11_NoControlBetweenSlots ==
    [][current_audio_channel = 1 => tracks' = tracks]_vars

----------------------------------------------------------------------------
(* Single calls: one function of the crate, called once on arguments drawn *)
(* from a bounded set.  call holds the function and its arguments, ret the *)
(* outcome.                                                                *)

Pending == [state |-> "pending"]
Returned(value) == [state |-> "returned", value |-> value]
Panicked == [state |-> "panicked"]

\* the rest of the model stands still during a single call
CallFrame == UNCHANGED <<call, mergeVars, mixerVars, threadVars>>

\* tracks to call interpret_event on: a new one, one with a voice sounding
\* on channel 0, and that one with channel 2 set to a patch without preset
FreshTrack == NewTrack(MelodyTrack, 2)
SoundingTrack == InterpretEvent(FreshTrack, NoteOn(0, 60, 127))
\* a track with voices on two channels, a frame after they began
ChordTrack ==
    AdvanceVoices(
        InterpretEvent(
            InterpretEvent(
                InterpretEvent(WithChannelPatch(FreshTrack, 1, 0, 1), NoteOn(0, 60, 127)),
                NoteOn(0, 48, 127)),
            NoteOn(1, 60, 64)))
CallTracks ==
    { FreshTrack, SoundingTrack, WithChannelPatch(SoundingTrack, 2, 5, 5), ChordTrack }

\* events to interpret: notes inside and outside the key ranges, velocities
\* inside and outside the velocity ranges, channels with and without preset
CallEvents ==
    {NoteOn(c, n, v) : c \in {0, 1, 2, PercussionChannel}, n \in {60, 100}, v \in {0, 64, 127}}
        \cup {NoteOff(c, n) : c \in {0, 1}, n \in {60, 100}}
        \cup {SetTempo(60)}

InterpretEventInputs ==
    {[fn |-> "interpret_event", track |-> t, event |-> e] : t \in CallTracks, e \in CallEvents}

\* MidiAudioTrack::interpret_event, called once
InterpretEventCall ==
    /\ call.fn = "interpret_event"
    /\ ret = Pending
    /\ ret' = IF /\ call.event.type = "NoteOn"
                 /\ CreateVoicePanics(call.track, call.event.channel,
                                      call.event.note, call.event.velocity)
              THEN Panicked
              ELSE Returned(InterpretEvent(call.track, call.event))
    /\ CallFrame

\* Option: None, and Some(value)
None == [some |-> FALSE]
Some(value) == [some |-> TRUE, value |-> value]

\* MidiAudio::queue on the track map trs: the map after the call
QueueOn(trs, handle, event) ==
    IF handle \in DOMAIN trs
    THEN [trs EXCEPT ![handle].queue = Append(@, event)]
    ELSE trs

\* get_mut(handle).unwrap() of start_playing_note and stop_playing_note
UnwrapPanics(trs, handle) == handle \notin DOMAIN trs

\* MidiAudio::start_playing_note and stop_playing_note on the track map trs,
\* after the unwrap: the map after the call
PlayNoteOn(trs, handle, event) == [trs EXCEPT ![handle] = InterpretEvent(@, event)]

\* MidiAudio::is_playing, beats_per_second, beats_per_bar
IsPlaying(trs, handle) ==
    IF handle \in DOMAIN trs THEN trs[handle].is_playing ELSE FALSE
BeatsPerSecond(trs, handle) ==
    IF handle \in DOMAIN trs THEN Some(trs[handle].beats_per_second) ELSE None
BeatsPerBar(trs, handle) ==
    IF handle \in DOMAIN trs THEN Some(trs[handle].beats_per_bar) ELSE None

\* the outcome of a call on a track map: the map it leaves, and its result
Outcome(trs, result) == Returned([tracks |-> trs, result |-> result])

\* track maps and handles to call MidiAudio on; handle 2 matches no track
CallTrackMaps ==
    { TrackMap(<<FreshTrack>>), TrackMap(<<SoundingTrack, Stopped(FreshTrack)>>) }
CallHandles == {0, 1, 2}
\* notes.rs: a Note is a letter (C = 0 .. B = 6, the discriminants of
\* NoteLetter), a sharp and an octave; the frequency plays no part here
Note(note_letter, sharp, octave) ==
    [note_letter |-> note_letter, sharp |-> sharp, octave |-> octave]

\* the twelve notes of an octave in the order of Note::NOTES
Chromatic ==
    <<<<0, FALSE>>, <<0, TRUE>>, <<1, FALSE>>, <<1, TRUE>>, <<2, FALSE>>, <<3, FALSE>>,
      <<3, TRUE>>, <<4, FALSE>>, <<4, TRUE>>, <<5, FALSE>>, <<5, TRUE>>, <<6, FALSE>>>>

NumNotes == 128

\* Note::NOTES: C-1, C#-1, ... , G9; entry i + 1 here is NOTES[i] there
NOTES ==
    [i \in 1 .. NumNotes |->
        Note(Chromatic[((i - 1) % 12) + 1][1], Chromatic[((i - 1) % 12) + 1][2],
             ((i - 1) \div 12) - 1)]

\* Note::position: (self.octave * 7 + self.note_letter as i8) as u8
Position(note) == (note.octave * 7 + note.note_letter) % 256

\* Note::from_position: Self::NOTES[position as usize], a panic out of bounds
FromPosition(position) ==
    IF position >= NumNotes THEN Panicked ELSE Returned(NOTES[position + 1])

\* Note::from_position(n.position()) for every note n of NOTES
NoteInputs == {[fn |-> "from_position", note |-> NOTES[i]] : i \in 1 .. NumNotes}

FromPositionOnce ==
    /\ call.fn = "from_position"
    /\ ret = Pending
    /\ ret' = FromPosition(Position(call.note))
    /\ CallFrame

\* the notes the control side plays: C-1 and C4
CallNotes == {NOTES[1], NOTES[61]}

ControlFns ==
    {"queue", "start_playing_note", "stop_playing_note",
     "is_playing", "beats_per_second", "beats_per_bar"}
ControlInputs ==
    {[fn |-> f, tracks |-> t, handle |-> h, event |-> QueueEvent("Stop", Bar, Once),
      note |-> n] :
        f \in ControlFns, t \in CallTrackMaps, h \in CallHandles, n \in CallNotes}

QueueOnce ==
    /\ call.fn = "queue"
    /\ ret = Pending
    /\ ret' = Outcome(QueueOn(call.tracks, call.handle, call.event), None)
    /\ CallFrame

StartPlayingNoteOnce ==
    /\ call.fn = "start_playing_note"
    /\ ret = Pending
    /\ ret' = IF UnwrapPanics(call.tracks, call.handle) THEN Panicked
              ELSE Outcome(PlayNoteOn(call.tracks, call.handle,
                                      NoteOn(0, Position(call.note), FullVelocity)), None)
    /\ CallFrame

StopPlayingNoteOnce ==
    /\ call.fn = "stop_playing_note"
    /\ ret = Pending
    /\ ret' = IF UnwrapPanics(call.tracks, call.handle) THEN Panicked
              ELSE Outcome(PlayNoteOn(call.tracks, call.handle, NoteOff(0, Position(call.note))), None)
    /\ CallFrame

IsPlayingOnce ==
    /\ call.fn = "is_playing"
    /\ ret = Pending
    /\ ret' = Outcome(call.tracks, IsPlaying(call.tracks, call.handle))
    /\ CallFrame

BeatsPerSecondOnce ==
    /\ call.fn = "beats_per_second"
    /\ ret = Pending
    /\ ret' = Outcome(call.tracks, BeatsPerSecond(call.tracks, call.handle))
    /\ CallFrame

BeatsPerBarOnce ==
    /\ call.fn = "beats_per_bar"
    /\ ret = Pending
    /\ ret' = Outcome(call.tracks, BeatsPerBar(call.tracks, call.handle))
    /\ CallFrame

\* calls of SoundFontBank::get_sample_headers: keys with one preset, with
\* two, and with none
HeaderKeys == {<<0, 0>>, <<0, 1>>, <<0, 2>>, <<5, 5>>, <<PercussionBank, 0>>}
HeaderInputs ==
    {[fn |-> "get_sample_headers", note |-> n, velocity |-> v,
      bank_number |-> k[1], patch_number |-> k[2]] :
        n \in {60, 100}, v \in {0, 64, 127}, k \in HeaderKeys}

GetSampleHeadersOnce ==
    /\ call.fn = "get_sample_headers"
    /\ ret = Pending
    /\ ret' = Returned(GetSampleHeaders(call.note, call.velocity,
                                        call.bank_number, call.patch_number))
    /\ CallFrame

\* calls of MidiTrack::from_midi_file on a file of one track: a NoteOn, then
\* a Set-Tempo whose three bytes encode a divisor of 60,000,000
TempoTriples ==
    { <<7, 161, 32>>,       \* 500,000
      <<0, 0, 1>>,          \* 1
      <<0, 1, 0>>,          \* 256
      <<0, 3, 0>>,          \* 768
      <<3, 208, 144>>,      \* 250,000
      <<15, 66, 64>>,       \* 1,000,000
      <<228, 225, 192>> }   \* 15,000,000
TempoFile(delta_time, bytes) ==
    [tracks |-> << <<[delta_time |-> 0, inner |-> MkInner("msg", <<1, 1>>)],
                     [delta_time |-> delta_time,
                      inner |-> [kind |-> "Meta", tag |-> <<1, 2>>,
                                 meta_type |-> SetTempoMetaType, bytes |-> bytes]]>> >>]
TempoInputs ==
    {[fn |-> "from_midi_file", file |-> TempoFile(d, b), bytes |-> b] :
        d \in 0 .. MaxDelta, b \in TempoTriples}

FromMidiFileOnce ==
    /\ call.fn = "from_midi_file"
    /\ ret = Pending
    /\ ret' = Returned(FromMidiFile(call.file))
    /\ CallFrame

\* calls of Voice::sample: the voice create_voice makes of a mono or of a
\* stereo preset, at its pitch or an octave below, after some calls of
\* Voice::tick, for each output slot
MaxVoiceTicks == 5
RECURSIVE Ticked(_, _)
Ticked(voice, ticks) == IF ticks = 0 THEN voice ELSE Ticked(VoiceTick(voice), ticks - 1)
MadeVoice(note, velocity, patch_number) ==
    VoiceOfHeaders(GetSampleHeaders(note, velocity, 0, patch_number), note, velocity).voice
SampleInputs ==
    {[fn |-> "sample", voice |-> Ticked(MadeVoice(n, v, p), t), audio_channel |-> a] :
        n \in {48, 60}, v \in {64, 127}, p \in {0, 1}, t \in 0 .. MaxVoiceTicks,
        a \in 0 .. NumAudioChannels - 1}

VoiceSampleOnce ==
    /\ call.fn = "sample"
    /\ ret = Pending
    /\ ret' = Returned(VoiceSample(call.voice, call.audio_channel))
    /\ CallFrame

CallInputs == InterpretEventInputs \cup ControlInputs \cup HeaderInputs \cup TempoInputs
                  \cup NoteInputs \cup SampleInputs

CallsInit ==
    /\ NoCompiler
    /\ NoMixer
    /\ NoThreads
    /\ call \in CallInputs
    /\ ret = Pending

CallsNext ==
    \/ InterpretEventCall
    \/ QueueOnce
    \/ StartPlayingNoteOnce
    \/ StopPlayingNoteOnce
    \/ IsPlayingOnce
    \/ BeatsPerSecondOnce
    \/ BeatsPerBarOnce
    \/ GetSampleHeadersOnce
    \/ FromMidiFileOnce
    \/ FromPositionOnce
    \/ VoiceSampleOnce

SpecCalls == CallsInit /\ [][CallsNext]_vars

\* the presets with a (bank, patch), and the pairs of a zone of such a preset
\* and a zone of the instrument it names that both contain (note, velocity)
PresetsOf(bank_number, patch_number) ==
    {i \in DOMAIN Presets : /\ Presets[i].bank_number = bank_number
                            /\ Presets[i].patch_number = patch_number}
ZonePairs(i, note, velocity) ==
    UNION {{<<zp, zi>> :
               zi \in {z \in DOMAIN Instruments[Presets[i].regions[zp].id + 1].regions :
                          RegionContains(Instruments[Presets[i].regions[zp].id + 1].regions[z],
                                         note, velocity)}} :
           zp \in {z \in DOMAIN Presets[i].regions :
                      RegionContains(Presets[i].regions[z], note, velocity)}}

\* the NoteOn of the call has nothing to sound: its channel's (bank, patch)
\* has no preset, or no zone pair of the preset contains its note and velocity
NothingToSound ==
    LET channel == call.track.channels[call.event.channel]
        with == PresetsOf(channel.bank_number, channel.patch_number)
    IN  \/ with = {}
        \/ \A i \in with : ZonePairs(i, call.event.note, call.event.velocity) = {}

\* what get_sample_headers gives for the NoteOn of the call
HeadersOfCall ==
    GetSampleHeaders(call.event.note, call.event.velocity,
                     call.track.channels[call.event.channel].bank_number,
                     call.track.channels[call.event.channel].patch_number)

\* C12: a NoteOn with nothing to sound returns without a panic, with an
\* empty result of get_sample_headers, and leaves the track, the voices of
\* the channel among it, as it was
C12_UnmappedNoteOnIgnored ==
    (/\ call.fn = "interpret_event"
     /\ ret # Pending
     /\ call.event.type = "NoteOn"
     /\ NothingToSound)
        => /\ ret.state = "returned"
           /\ HeadersOfCall.headers = <<>>
           /\ ret.value = call.track

\* C12 witness: a NoteOn of a velocity no instrument zone contains, for a
\* note that already sounds on the channel, has returned; the preset exists
C12_Witness ==
    /\ call.fn = "interpret_event"
    /\ ret.state = "returned"
    /\ call.event.type = "NoteOn"
    /\ NothingToSound
    /\ HeadersOfCall.found
    /\ call.event.note \in DOMAIN call.track.channels[call.event.channel].voices
    /\ ret.value = call.track

\* C13: a control or query call with a handle that matches no track
\* returns, leaves the tracks as they were, and a query answers false or
\* nothing
C13_UnknownHandleHarmless ==
    (/\ call.fn \in ControlFns
     /\ ret # Pending
     /\ call.handle \notin DOMAIN call.tracks)
        => /\ ret.state = "returned"
           /\ ret.value.tracks = call.tracks
           /\ call.fn = "is_playing" => ret.value.result = FALSE
           /\ call.fn \in {"beats_per_second", "beats_per_bar"} => ret.value.result = None

----------------------------------------------------------------------------
(* The mixer with a renderer that keeps running: MidiRenderer::loop never  *)
(* leaves its loop, so a call of tick that can be made is made.            *)

\* mixers built with stopped() and with_queue(): a track that is to start
\* at the next beat, alone and beside a playing track
\* a track built with_queue(Play at Beat).stopped()
StoppedWithPlay == Stopped(WithQueue(NewTrack(MelodyTrack, 2), QueueEvent("Play", Beat, Once)))

\* such a track alone, such a track beside one that plays, and a track that
\* sets its tempo beside one that does not
LiveMixers ==
    { TrackMap(<<StoppedWithPlay>>),
      TrackMap(<<NewTrack(MelodyTrack, 2), StoppedWithPlay>>),
      TrackMap(<<NewTrack(DrumTrack, 1), NewTrack(MelodyTrack, 2)>>) }

LiveInit ==
    /\ MixerStart(LiveMixers)
    /\ NoThreads
    /\ NoCalls

\* the control side queues further Play events, and a Stop
LiveQueueEvents ==
    { QueueEvent("Play", Bar, Once), QueueEvent("Play", Loop, Loop),
      QueueEvent("Stop", Beat, Once) }

LiveNext ==
    \/ Render
    \/ \E h \in Handles, e \in LiveQueueEvents : Queue(h, e)

\* a pass of the loop of the renderer thread that returns from tick, seen by
\* its effect on the output slot: of the steps of LiveNext only Render moves
\* the slot, and it does so in every pass that ends
SlotStep ==
    /\ ~hung
    /\ current_audio_channel' = (current_audio_channel + 1) % NumAudioChannels

\* the renderer thread is never starved: while its loop can run, it runs
SpecLive == LiveInit /\ [][LiveNext]_vars /\ WF_current_audio_channel(SlotStep)

\* track h waits to be started, and track h plays
AwaitsPlay(h) ==
    h \in DOMAIN tracks /\ ~tracks[h].is_playing /\ HasEvent(tracks[h].queue, "Play")
Plays(h) == h \in DOMAIN tracks /\ tracks[h].is_playing

\* C14: with a renderer that keeps rendering, a track that is not playing
\* and has a Play event queued plays in the end
C14_QueuedPlayStarts ==
    \A h \in {0, 1} : AwaitsPlay(h) ~> Plays(h)

\* where a track is in its pass, and how fast it moves
PositionOf(track) ==
    <<track.tick, track.beat, track.event_index,
      track.beats_per_second, track.ticks_per_sample>>

\* the track as the event dispatch of the frame that starts it leaves it:
\* tick_midi run from the position the track was stopped at
ResumedFrom(track) == TickMidi(track).track

\* C25: a step that finds a track stopped and leaves it stopped keeps its
\* tick, beat, cursor and tempo; the frame that starts it again runs the
\* event dispatch from exactly that position
C25_StoppedTrackKeepsPosition ==
    [][\A h \in DOMAIN tracks :
          ~tracks[h].is_playing =>
              IF tracks'[h].is_playing
              THEN PositionOf(tracks'[h]) = PositionOf(ResumedFrom(tracks[h]))
              ELSE PositionOf(tracks'[h]) = PositionOf(tracks[h])]_vars

\* track 1 was built stopped with a Play queued; track 0 has played for a
\* beat, and the Play has just started track 1 at the position it was left
\* at: the first event dispatched, tick and beat still zero
C25_Witness ==
    /\ DOMAIN tracks = {0, 1}
    /\ tracks[0].beat > 0
    /\ obs[1].framed
    /\ HasEvent(obs[1].applied, "Play")
    /\ obs[1].crossed = {}
    /\ Plays(1)
    /\ tracks[1].midi_track = MelodyTrack
    /\ PositionOf(tracks[1]) = PositionOf(ResumedFrom(StoppedWithPlay))

\* the tempo of a track
TempoOf(track) == <<track.beats_per_second, track.ticks_per_sample>>

\* the tempos, in beats per minute, of the Set-Tempo events track h
\* dispatches in a step: none unless the step is a frame in which it plays
TemposDispatched(h) ==
    IF FrameStep /\ BeforeDispatch(h).is_playing
    THEN SelectSeq(DispatchedInFrame(BeforeDispatch(h)), LAMBDA e : e.type = "SetTempo")
    ELSE <<>>

\* C29: the tempo of a track changes only when that track dispatches a
\* Set-Tempo, and then to the tempo of the last one dispatched: not when
\* another track does, and not when the track's cursor wraps
C29_TempoPerTrack ==
    [][\A h \in DOMAIN tracks :
          LET tempos == TemposDispatched(h)
          IN  IF tempos = <<>>
              THEN TempoOf(tracks'[h]) = TempoOf(tracks[h])
              ELSE /\ tracks'[h].beats_per_second * 60 = tempos[Len(tempos)].tempo
                   /\ RateMatchesTempo(tracks'[h])]_vars

\* track 0 has set its tempo to 60 and has wrapped since: it still has that
\* tempo, with its cursor before the Set-Tempo, and track 1 has the tempo it
\* was created with
C29_Witness ==
    /\ DOMAIN tracks = {0, 1}
    /\ tracks[0].midi_track = DrumTrack
    /\ obs[0].wrapped
    /\ tracks[0].event_index <= 2
    /\ tracks[0].beats_per_second = 1
    /\ TempoOf(tracks[1]) = TempoOf(NewTrack(MelodyTrack, 2))

\* the zone pairs of preset i that lead to the sample header id
PairsOfSample(i, note, velocity, id) ==
    {p \in ZonePairs(i, note, velocity) :
        Instruments[Presets[i].regions[p[1]].id + 1].regions[p[2]].id + 1 = id}

\* how often a sample header is in a list of headers
TimesIn(headers, id) == Cardinality({k \in DOMAIN headers : headers[k] = SampleHeaders[id]})

GetSampleHeadersReturned == call.fn = "get_sample_headers" /\ ret.state = "returned"

\* C17: get_sample_headers gives None for a key without preset, and else one
\* sample header for each pair of a preset zone and a zone of its instrument
\* that both contain the note and the velocity, and no other header
C17_OneHeaderPerZonePair ==
    GetSampleHeadersReturned =>
        LET i == PresetIndex(call.bank_number, call.patch_number)
        IN  IF i = 0 THEN ~ret.value.found
            ELSE /\ ret.value.found
                 /\ \A id \in DOMAIN SampleHeaders :
                        TimesIn(ret.value.headers, id)
                            = Cardinality(PairsOfSample(i, call.note, call.velocity, id))

\* a call on the key of two presets: some zone of the indexed preset does not
\* contain the note, some zone of an instrument does not, and two zone pairs
\* lead to the same sample
C17_Witness ==
    /\ GetSampleHeadersReturned
    /\ PresetIndex(call.bank_number, call.patch_number) = 4
    /\ Len(ret.value.headers) = 4
    /\ TimesIn(ret.value.headers, 1) = 2
    /\ \E zp \in DOMAIN Presets[4].regions :
          ~RegionContains(Presets[4].regions[zp], call.note, call.velocity)
    /\ \E p \in ZonePairs(4, call.note, call.velocity) :
          \E zi \in DOMAIN Instruments[Presets[4].regions[p[1]].id + 1].regions :
              <<p[1], zi>> \notin ZonePairs(4, call.note, call.velocity)

\* the microseconds per beat the three bytes of the call stand for
MicrosecondsOfCall == call.bytes[1] * 65536 + call.bytes[2] * 256 + call.bytes[3]

FromMidiFileReturned == call.fn = "from_midi_file" /\ ret.state = "returned"

\* the Set-Tempo events of a compiled track
TempoEvents(events) == {k \in DOMAIN events : events[k].inner.kind = "Tempo"}

\* C18: a Set-Tempo event of m microseconds per beat compiles to the tempo
\* 60,000,000 / m beats per minute, which is 120 for m = 500,000
C18_TempoFromMicroseconds ==
    FromMidiFileReturned =>
        /\ TempoEvents(ret.value) # {}
        /\ \A k \in TempoEvents(ret.value) :
              /\ ret.value[k].inner.tempo * MicrosecondsOfCall = 60000000
              /\ MicrosecondsOfCall = 500000 => ret.value[k].inner.tempo = 120

\* the file with 500,000 microseconds per beat has been compiled
C18_Witness ==
    /\ FromMidiFileReturned
    /\ MicrosecondsOfCall = 500000
    /\ \E k \in TempoEvents(ret.value) : ret.value[k].inner.tempo = 120

\* the index of a note in Note::NOTES, counted from 0
NoteIndex(note) == (CHOOSE i \in DOMAIN NOTES : NOTES[i] = note) - 1

\* C19: position is the index of the note in NOTES: from_position gives the
\* note back, and start_playing_note acts as the NoteOn of that index
C19_PositionIsNoteIndex ==
    /\ (call.fn = "from_position" /\ ret # Pending) => ret = Returned(call.note)
    /\ (/\ call.fn = "start_playing_note"
        /\ ret # Pending
        /\ call.handle \in DOMAIN call.tracks)
           => ret = Outcome(PlayNoteOn(call.tracks, call.handle,
                                       NoteOn(0, NoteIndex(call.note), FullVelocity)),
                            None)

----------------------------------------------------------------------------
(* The four mutexes, one acquisition per step: MidiRenderer::loop,          *)
(* MidiDecoder::next and the calls of MidiAudio on a third thread,          *)
(* src/src/source.rs.  A guard that lives for one statement in which the    *)
(* thread takes no other mutex (requested_samples, buffer) is one step; the *)
(* guards held while another mutex is taken (tracks, soundfont) are not.    *)

LockMixers == ThreadMixers

\* calls of MidiDecoder::next this specification follows
MaxLockPulls == 3

LocksInit ==
    /\ MixerStart(LockMixers)
    /\ NoThreads
    /\ NoCalls

\* line 325: let mut tracks = self.tracks.lock().unwrap()
RendererLockTracks ==
    /\ rpc = "lock"
    /\ AllFree({"tracks"})
    /\ locks' = [locks EXCEPT !.tracks = "renderer"]
    /\ rpc' = "lock_soundfont"
    /\ UNCHANGED <<requested_samples, buffer, samples, left, cpc, pulls, pulled, pushed>>
    /\ UNCHANGED mixerVars
    /\ UNCHANGED mergeVars
    /\ UNCHANGED callVars

\* line 326: let soundfont = self.soundfont.lock().unwrap()
RendererLockSoundfont ==
    /\ rpc = "lock_soundfont"
    /\ AllFree({"soundfont"})
    /\ locks' = [locks EXCEPT !.soundfont = "renderer"]
    /\ left' = samples
    /\ rpc' = "batch"
    /\ UNCHANGED <<requested_samples, buffer, samples, cpc, pulls, pulled, pushed>>
    /\ UNCHANGED mixerVars
    /\ UNCHANGED mergeVars
    /\ UNCHANGED callVars

\* faulty variant: the note calls take the soundfont mutex first
NoteLocks_SoundfontFirst == <<"soundfont", "tracks">>

\* lines 52-64 and 68-79: the receiver self.tracks.lock() is evaluated before
\* the argument &self.soundfont.lock().unwrap(), and both guards live to the
\* end of the statement
NoteLocks == <<"tracks", "soundfont">>

\* the mutexes a call of MidiAudio takes, in the order it takes them
LocksOfCall(fn) == IF fn = "queue" THEN <<"tracks">> ELSE NoteLocks

\* the calls the control thread makes: a track that exists, the note C4
LockCalls ==
    {[fn |-> "queue", handle |-> 0, event |-> QueueEvent("Stop", Bar, Once)],
     [fn |-> "start_playing_note", handle |-> 0, note |-> NOTES[61]],
     [fn |-> "stop_playing_note", handle |-> 0, note |-> NOTES[61]]}

\* the control thread enters a call of MidiAudio
ControlBegin(c) ==
    /\ call.fn = "none"
    /\ control_ops < MaxControlOps
    /\ control_ops' = control_ops + 1
    /\ call' = c
    /\ ret' = Pending
    /\ UNCHANGED <<tracks, current_audio_channel, hung, obs, rendered>>
    /\ UNCHANGED threadVars
    /\ UNCHANGED mergeVars

\* the mutexes of its call the control thread has still to take
ControlNeeds ==
    IF call.fn = "none" THEN <<>>
    ELSE SelectSeq(LocksOfCall(call.fn), LAMBDA l : locks[l] # "control")

\* the control thread takes the next mutex of its call
ControlLock ==
    /\ ControlNeeds # <<>>
    /\ AllFree({Head(ControlNeeds)})
    /\ locks' = [locks EXCEPT ![Head(ControlNeeds)] = "control"]
    /\ UNCHANGED <<requested_samples, buffer, rpc, samples, left, cpc, pulls, pulled, pushed>>
    /\ UNCHANGED mixerVars
    /\ UNCHANGED mergeVars
    /\ UNCHANGED callVars

\* what the call does to the tracks once it has its mutexes
TracksAfterCall(trs, c) ==
    CASE c.fn = "queue" -> QueueOn(trs, c.handle, c.event)
      [] c.fn = "start_playing_note" ->
            PlayNoteOn(trs, c.handle, NoteOn(0, Position(c.note), FullVelocity))
      [] OTHER -> PlayNoteOn(trs, c.handle, NoteOff(0, Position(c.note)))

\* the statement ends: the call has acted and its guards are dropped
ControlReturn ==
    /\ call.fn # "none"
    /\ ControlNeeds = <<>>
    /\ tracks' = TracksAfterCall(tracks, call)
    /\ WithinBounds(tracks')
    /\ locks' = [l \in DOMAIN locks |-> IF locks[l] = "control" THEN "free" ELSE locks[l]]
    /\ call' = [fn |-> "none"]
    /\ ret' = [state |-> "none"]
    /\ UNCHANGED <<current_audio_channel, hung, obs, rendered, control_ops>>
    /\ UNCHANGED <<requested_samples, buffer, rpc, samples, left, cpc, pulls, pulled, pushed>>
    /\ UNCHANGED mergeVars

ControlEnters == \E c \in LockCalls : ControlBegin(c)

\* the first statement of next, for the calls this specification follows
LockPullRequest == pulls < MaxLockPulls /\ PullRequest

LocksNext ==
    \/ RendererRead
    \/ RendererLockTracks
    \/ RendererLockSoundfont
    \/ RenderSample
    \/ RendererFinish
    \/ LockPullRequest
    \/ PullPop
    \/ ControlEnters
    \/ ControlLock
    \/ ControlReturn

SpecLocks == LocksInit /\ [][LocksNext]_vars

\* the mutex a thread has to take before its next step, "none" when it is
\* not at a lock() (the renderer inside tick_midi, a thread outside a call)
Threads == {"renderer", "consumer", "control"}
Needs(t) ==
    CASE t = "renderer" ->
            (CASE hung -> "none"
               [] rpc = "top" -> "requested_samples"
               [] rpc = "lock" -> "tracks"
               [] rpc = "lock_soundfont" -> "soundfont"
               [] rpc = "batch" /\ left > 0 -> "buffer"
               [] OTHER -> "requested_samples")
      [] t = "consumer" -> (IF cpc = "requested" THEN "buffer" ELSE "none")
      [] OTHER -> (IF ControlNeeds = <<>> THEN "none" ELSE Head(ControlNeeds))

\* every thread of the set waits for a mutex another thread of the set holds
Deadlocked(T) ==
    /\ T # {}
    /\ \A t \in T : Needs(t) # "none" /\ locks[Needs(t)] \in T \ {t}

\* C24: no set of threads, and so not the set of all three, is ever in a
\* state in which each of them waits for a mutex held by another of them
C24_NoDeadlock == \A T \in SUBSET Threads : ~Deadlocked(T)

\* all three threads are inside an operation, the control thread holds the
\* tracks mutex and the renderer waits for it
C24_Witness ==
    /\ rpc = "lock"
    /\ locks.tracks = "control"
    /\ call.fn = "start_playing_note"
    /\ ControlNeeds = <<"soundfont">>
    /\ cpc = "requested"

\* the voices of a channel before and after the call of interpret_event
VoicesBefore(c) == call.track.channels[c].voices
VoicesAfter(c) == ret.value.channels[c].voices

\* the call changed nothing but the voice of its channel and note
OnlyItsVoice ==
    /\ [ret.value EXCEPT !.channels = call.track.channels] = call.track
    /\ DOMAIN ret.value.channels = DOMAIN call.track.channels
    /\ \A c \in DOMAIN call.track.channels :
          /\ [ret.value.channels[c] EXCEPT !.voices = VoicesBefore(c)] = call.track.channels[c]
          /\ \A n \in (DOMAIN VoicesBefore(c) \cup DOMAIN VoicesAfter(c)) :
                (c # call.event.channel \/ n # call.event.note)
                    => /\ n \in DOMAIN VoicesBefore(c)
                       /\ n \in DOMAIN VoicesAfter(c)
                       /\ VoicesAfter(c)[n] = VoicesBefore(c)[n]

\* a voice as a NoteOn makes it: one sample for each zone pair, each at the
\* start of its waveform, with the velocity of the event
NewlyMade(voice) ==
    LET channel == call.track.channels[call.event.channel]
        i == PresetIndex(channel.bank_number, channel.patch_number)
    IN  /\ Len(voice.samples)
              = Cardinality(ZonePairs(i, call.event.note, call.event.velocity))
        /\ \A k \in DOMAIN voice.samples :
              /\ voice.samples[k].volume = call.event.velocity
              /\ \E id \in DOMAIN SampleHeaders :
                    /\ voice.samples[k].current_sample = ToPos(SampleHeaders[id].start)
                    /\ voice.samples[k].end_sample = ToPos(SampleHeaders[id].end)

InterpretEventReturned == call.fn = "interpret_event" /\ ret.state = "returned"

\* C30: a NoteOn that has something to sound leaves, for its channel and
\* note, the one voice it made, in place of any voice that was there; a
\* NoteOff leaves none for its channel and note; neither touches any other
\* voice or anything else of the track
C30_OneVoicePerNote ==
    (InterpretEventReturned /\ call.event.type \in {"NoteOn", "NoteOff"}) =>
        /\ OnlyItsVoice
        /\ (call.event.type = "NoteOn" /\ ~NothingToSound) =>
              /\ call.event.note \in DOMAIN VoicesAfter(call.event.channel)
              /\ NewlyMade(VoicesAfter(call.event.channel)[call.event.note])
        /\ call.event.type = "NoteOff" =>
              call.event.note \notin DOMAIN VoicesAfter(call.event.channel)

\* a NoteOn has replaced a voice that had already advanced, on a track with
\* voices for another note and on another channel
C30_Witness ==
    /\ InterpretEventReturned
    /\ call.track = ChordTrack
    /\ call.event.type = "NoteOn"
    /\ call.event.note \in DOMAIN VoicesBefore(call.event.channel)
    /\ VoicesAfter(call.event.channel)[call.event.note]
          # VoicesBefore(call.event.channel)[call.event.note]
    /\ NewlyMade(VoicesAfter(call.event.channel)[call.event.note])
    /\ OnlyItsVoice

\* the output slots a sample type is heard on
SlotsOf(sample_type) ==
    IF sample_type = Mono THEN {0, 1}
    ELSE IF sample_type = Left THEN {0}
    ELSE IF sample_type = Right THEN {1}
    ELSE {}

\* the samples of the call's voice that have not reached their end
Alive == {k \in DOMAIN call.voice.samples :
             call.voice.samples[k].current_sample < call.voice.samples[k].end_sample}

\* those of a sample type
AliveOfType(sample_type) == {k \in Alive : call.voice.samples[k].sample_type = sample_type}

\* the sum of the interpolated values of a set of samples of the call's voice
RECURSIVE SumOfSamples(_)
SumOfSamples(ks) ==
    IF ks = {} THEN 0
    ELSE LET k == CHOOSE m \in ks : TRUE
         IN  Interpolate(call.voice.samples[k]) + SumOfSamples(ks \ {k})

\* what the slot of the call hears by the routing of the sample types
RoutedSum ==
    SumOfSamples({k \in Alive : call.audio_channel \in SlotsOf(call.voice.samples[k].sample_type)})

VoiceSampleReturned == call.fn = "sample" /\ ret.state = "returned"

\* C32: what Voice::sample gives for slot 0 is made of the Mono and the Left
\* samples and of no Right sample, for slot 1 of the Mono and the Right
\* samples and of no Left sample
C32_StereoRouting ==
    VoiceSampleReturned =>
        /\ ret.value = RoutedSum
        /\ call.audio_channel = 0 =>
              ret.value = SumOfSamples(AliveOfType(Mono)) + SumOfSamples(AliveOfType(Left))
        /\ call.audio_channel = 1 =>
              ret.value = SumOfSamples(AliveOfType(Mono)) + SumOfSamples(AliveOfType(Right))

\* slot 1 of a voice with a Left and a Right sample sounding: the value is the
\* Right sample's, and differs from the Left sample's and from the sum of both
C32_Witness ==
    /\ VoiceSampleReturned
    /\ call.audio_channel = 1
    /\ SumOfSamples(AliveOfType(Left)) # 0
    /\ SumOfSamples(AliveOfType(Right)) # 0
    /\ ret.value = SumOfSamples(AliveOfType(Right))
    /\ ret.value # SumOfSamples(AliveOfType(Left))
    /\ ret.value # SumOfSamples(AliveOfType(Left)) + SumOfSamples(AliveOfType(Right))

\* slot 0 of such a voice: the value is the Left sample's
C32_WitnessLeft ==
    /\ VoiceSampleReturned
    /\ call.audio_channel = 0
    /\ SumOfSamples(AliveOfType(Right)) # 0
    /\ ret.value = SumOfSamples(AliveOfType(Left))
    /\ ret.value # SumOfSamples(AliveOfType(Right))

\* a Mono sample is heard on both slots
C32_WitnessMono ==
    /\ VoiceSampleReturned
    /\ call.audio_channel = 1
    /\ ret.value = SumOfSamples(AliveOfType(Mono))
    /\ ret.value # 0

=============================================================================
